---------------------------- MODULE Spec2Model ----------------------------
(***************************************************************************)
(* Joblyst: the job-history store (job_history.py) and the matching        *)
(* pipeline (main.py: the scrapers, normalizeJob, the four filters,        *)
(* scoreJobHybrid, sendToDiscord, runJoblyst).  A step of the pipeline     *)
(* ends where the code waits with its state changed: after the cleanup,    *)
(* while the scrapers fetch their pages, and after mark_as_sent, while     *)
(* requests.post is under way.                                             *)
(*                                                                         *)
(* Text is a sequence of one-character strings, so that Python's substring *)
(* test, str.count, str.lower, str.strip and the tag regular expression    *)
(* are computed character by character as the interpreter computes them.   *)
(* Time is counted in whole days; a timestamp is stored as the code stores *)
(* it, as the text datetime.isoformat() produces, and compared as text.    *)
(***************************************************************************)
EXTENDS Integers, Sequences, FiniteSets, TLC

(***************************************************************************)
(* Bounds of the model                                                     *)
(***************************************************************************)
\* the clock runs from day retention_days to day retention_days + Horizon
Horizon == 2
\* the number of elements the pages of one run hold is at most MaxJobs
MaxJobs == 2

(***************************************************************************)
(* Python text primitives                                                  *)
(***************************************************************************)
Min(a, b) == IF a <= b THEN a ELSE b
Max(a, b) == IF a >= b THEN a ELSE b

\* p in s
Contains(p, s) ==
    \E i \in 1..(Len(s) - Len(p) + 1) : \A k \in 1..Len(p) : s[i + k - 1] = p[k]

\* any(p in s for p in list)
AnyIn(list, s) == \E n \in 1..Len(list) : Contains(list[n], s)

\* s.count(p): occurrences found left to right, not overlapping
RECURSIVE CountFrom(_, _, _)
CountFrom(p, s, i) ==
    IF i + Len(p) - 1 > Len(s) THEN 0
    ELSE IF \A k \in 1..Len(p) : s[i + k - 1] = p[k]
         THEN 1 + CountFrom(p, s, i + Len(p))
         ELSE CountFrom(p, s, i + 1)
Count(p, s) == CountFrom(p, s, 1)

\* The alphabet of the model is ISO 8859-1 (U+0000 to U+00FF).  str.lower()
\* changes 56 of its characters: A to Z, and U+00C0 to U+00DE but the
\* multiplication sign U+00D7; each goes to the character 32 places on.
UpperCase == <<"A","B","C","D","E","F","G","H","I","J","K","L","M",
               "N","O","P","Q","R","S","T","U","V","W","X","Y","Z",
               "À","Á","Â","Ã","Ä","Å","Æ","Ç","È","É","Ê","Ë","Ì",
               "Í","Î","Ï","Ð","Ñ","Ò","Ó","Ô","Õ","Ö","Ø","Ù","Ú",
               "Û","Ü","Ý","Þ">>
LowerCase == <<"a","b","c","d","e","f","g","h","i","j","k","l","m",
               "n","o","p","q","r","s","t","u","v","w","x","y","z",
               "à","á","â","ã","ä","å","æ","ç","è","é","ê","ë","ì",
               "í","î","ï","ð","ñ","ò","ó","ô","õ","ö","ø","ù","ú",
               "û","ü","ý","þ">>
LowerChar(c) ==
    IF \E i \in 1..Len(UpperCase) : UpperCase[i] = c
    THEN LowerCase[CHOOSE i \in 1..Len(UpperCase) : UpperCase[i] = c]
    ELSE c
\* s.lower()
Lower(s) == [i \in 1..Len(s) |-> LowerChar(s[i])] \o << >>

\* the characters str.strip() removes: str.isspace() holds of them.  In the
\* model's alphabet these are U+0009 to U+000D, U+001C to U+001F, the blank,
\* U+0085 and U+00A0; U+1680 is one more.
IsSpace(c) ==
    c \in {" ", "\t", "\n", "\r", "\f", "", "", "", "", "", "", " ", " "}
\* s.strip()
Strip(s) ==
    LET keep == {i \in 1..Len(s) : ~IsSpace(s[i])}
    IN  IF keep = {} THEN << >>
        ELSE SubSeq(s, CHOOSE i \in keep : \A j \in keep : i <= j,
                       CHOOSE i \in keep : \A j \in keep : i >= j)

\* s[:n]
Prefix(s, n) == SubSeq(s, 1, Min(n, Len(s)))

\* f"{a} {b}"
Joined(a, b) == a \o <<" ">> \o b

(***************************************************************************)
(* Normalizer                                                              *)
(***************************************************************************)
\* Python None, where a text is expected
None == <<"None">>
\* Python None, where a job is expected
NoJob == [none |-> TRUE]

\* the index of the first ">" of s after its first character, 0 when none
TagEnd(s) ==
    LET closing == {i \in 2..Len(s) : s[i] = ">"}
    IN  IF closing = {} THEN 0 ELSE CHOOSE i \in closing : \A j \in closing : i <= j

\* re.sub(r'<[^>]+>', ' ', s): a "<", at least one character other than ">",
\* then ">", replaced by one space, matches taken left to right
RECURSIVE SubTags(_)
SubTags(s) ==
    IF s = << >> THEN << >>
    ELSE IF s[1] = "<" /\ TagEnd(s) > 2
         THEN <<" ">> \o SubTags(SubSeq(s, TagEnd(s) + 1, Len(s)))
         ELSE <<s[1]>> \o SubTags(Tail(s))

cleanHtml(text) ==
    IF text = None \/ text = << >> THEN << >> ELSE Strip(SubTags(text))

DefaultLocation == <<"p","a","k","i","s","t","a","n">>

\* a variant with the two lengths exchanged
Fingerprint_exchanged(company, title) ==
    Prefix(Lower(company), 40) \o <<"-">> \o Prefix(Lower(title), 30)

\* f"{company.lower()[:30]}-{title.lower()[:40]}"
Fingerprint(company, title) ==
    Prefix(Lower(company), 30) \o <<"-">> \o Prefix(Lower(title), 40)

normalizeJob(title, company, location, description, applyLink) ==
    IF title = None \/ title = << >> \/ company = None \/ company = << >>
    THEN NoJob
    ELSE LET t == Strip(cleanHtml(title))
             c == Strip(cleanHtml(company))
             l == IF location = None \/ location = << >>
                  THEN DefaultLocation ELSE Strip(cleanHtml(location))
             d == Strip(cleanHtml(description))
         IN  [title       |-> Lower(t),
              company     |-> c,
              location    |-> Lower(l),
              description |-> Lower(d),
              applyLink   |-> applyLink,
              email       |-> None,
              id          |-> Fingerprint(c, t)]

(***************************************************************************)
(* Configuration read at start-up (config.json, cv.json)                   *)
(***************************************************************************)
allowedRoles == << <<"d","e","v","e","l","o","p","e","r">> >>
allowedLocations == << <<"l","a","h","o","r","e">> >>
minScore == 40
cvSkills == << <<"p","y","t","h","o","n">>, <<"r","e","a","c","t">> >>

(***************************************************************************)
(* Filter chain                                                            *)
(***************************************************************************)
myTechStack ==
    << <<"p","y","t","h","o","n">>, <<"j","a","v","a","s","c","r","i","p","t">>, <<"t","y","p","e","s","c","r","i","p","t">>, <<"r","e","a","c","t">>, <<"n","e","x","t">>, <<"n","e","x","t","j","s">>,
       <<"n","o","d","e">>, <<"n","o","d","e","j","s">>, <<"n","e","s","t">>, <<"n","e","s","t","j","s">>,
       <<"f","u","l","l"," ","s","t","a","c","k">>, <<"f","u","l","l","s","t","a","c","k">>, <<"f","u","l","l","-","s","t","a","c","k">>,
       <<"f","r","o","n","t","e","n","d">>, <<"b","a","c","k","e","n","d">>, <<"w","e","b"," ","d","e","v","e","l","o","p","e","r">>,
       <<"a","i">>, <<"m","l">>, <<"m","a","c","h","i","n","e"," ","l","e","a","r","n","i","n","g">>, <<"a","r","t","i","f","i","c","i","a","l"," ","i","n","t","e","l","l","i","g","e","n","c","e">>,
       <<"m","e","r","n">>, <<"m","e","a","n">>, <<"m","o","n","g","o","d","b">>, <<"d","a","t","a","b","a","s","e">>,
       <<"f","a","s","t","a","p","i">>, <<"s","o","f","t","w","a","r","e"," ","e","n","g","i","n","e","e","r">> >>

roleFilter(job) ==
    LET combined == Joined(job.title, job.description)
    IN  AnyIn(allowedRoles, combined) \/ AnyIn(myTechStack, combined)

locationFilter(job) ==
    AnyIn(allowedLocations, job.location) \/ Contains(<<"r","e","m","o","t","e">>, job.location)

rejectPatterns ==
    << <<"s","e","n","i","o","r">>, <<"s","r",".">>, <<"s","r"," ">>, <<"l","e","a","d">>, <<"p","r","i","n","c","i","p","a","l">>, <<"s","t","a","f","f"," ","e","n","g","i","n","e","e","r">>,
       <<"d","i","r","e","c","t","o","r">>,
       <<"5","+"," ","y","e","a","r">>, <<"6","+"," ","y","e","a","r">>, <<"7","+"," ","y","e","a","r">>, <<"8","+"," ","y","e","a","r">>, <<"1","0","+"," ","y","e","a","r">>,
       <<"5"," ","y","e","a","r">>, <<"6"," ","y","e","a","r">>, <<"7"," ","y","e","a","r">>, <<"8"," ","y","e","a","r">>,
       <<"m","i","d","-","l","e","v","e","l">>, <<"m","i","d"," ","l","e","v","e","l">>, <<"i","n","t","e","r","m","e","d","i","a","t","e">>, <<"e","x","p","e","r","i","e","n","c","e","d">>,
       <<"3","+"," ","y","e","a","r">>, <<"4","+"," ","y","e","a","r">>, <<"3"," ","y","e","a","r">>, <<"4"," ","y","e","a","r">> >>

freshPatterns ==
    << <<"f","r","e","s","h">>, <<"j","u","n","i","o","r">>, <<"e","n","t","r","y">>, <<"g","r","a","d","u","a","t","e">>, <<"i","n","t","e","r","n">>, <<"t","r","a","i","n","e","e">>,
       <<"0","-","1">>, <<"0","-","2">>, <<"1","-","2">>, <<"a","s","s","o","c","i","a","t","e">>, <<"e","n","t","r","y"," ","l","e","v","e","l">>, <<"e","n","t","r","y","-","l","e","v","e","l">> >>

entryLevelTitles == << <<"d","e","v","e","l","o","p","e","r">>, <<"e","n","g","i","n","e","e","r">>, <<"p","r","o","g","r","a","m","m","e","r">> >>

\* a variant that lets a fresh-graduate marker pass before it looks for the
\* exclusion markers
experienceFilter_freshFirst(job) ==
    LET combined == Joined(job.title, job.description)
    IN  IF AnyIn(freshPatterns, combined) THEN TRUE
        ELSE IF AnyIn(rejectPatterns, combined) THEN FALSE
        ELSE /\ AnyIn(entryLevelTitles, job.title)
             /\ ~Contains(<<"s","e","n","i","o","r">>, job.title)
             /\ ~Contains(<<"l","e","a","d">>, job.title)

experienceFilter(job) ==
    LET combined == Joined(job.title, job.description)
    IN  IF AnyIn(rejectPatterns, combined) THEN FALSE
        ELSE IF AnyIn(freshPatterns, combined) THEN TRUE
        ELSE /\ AnyIn(entryLevelTitles, job.title)
             /\ ~Contains(<<"s","e","n","i","o","r">>, job.title)
             /\ ~Contains(<<"l","e","a","d">>, job.title)

excludedTech ==
    << <<"f","l","u","t","t","e","r">>, <<"s","w","i","f","t">>, <<"k","o","t","l","i","n">>, <<"i","o","s">>, <<"a","n","d","r","o","i","d">>,
       <<"a","n","g","u","l","a","r">>, <<"v","u","e">>, <<"v","u","e",".","j","s">>,
       <<".","n","e","t">>, <<"c","#">>, <<"c","s","h","a","r","p">>, <<"a","s","p",".","n","e","t">>,
       <<"l","a","r","a","v","e","l">>, <<"p","h","p">>, <<"s","y","m","f","o","n","y">>,
       <<"r","u","b","y">>, <<"r","a","i","l","s">>, <<"r","u","b","y"," ","o","n"," ","r","a","i","l","s">>,
       <<"g","o","l","a","n","g">>, <<"g","o"," ","d","e","v","e","l","o","p","e","r">>,
       <<"s","a","l","e","s","f","o","r","c","e">>, <<"s","a","p">>, <<"o","r","a","c","l","e">>,
       <<"s","h","o","p","i","f","y">>, <<"w","o","r","d","p","r","e","s","s">>, <<"d","r","u","p","a","l">>,
       <<"u","n","i","t","y">>, <<"u","n","r","e","a","l">>, <<"g","a","m","e"," ","d","e","v">>,
       <<"d","e","v","o","p","s">>, <<"s","r","e">>, <<"i","n","f","r","a","s","t","r","u","c","t","u","r","e">>, <<"n","e","t","w","o","r","k"," ","e","n","g","i","n","e","e","r">>,
       <<"q","a">>, <<"t","e","s","t">>, <<"q","u","a","l","i","t","y"," ","a","s","s","u","r","a","n","c","e">>, <<"s","d","e","t">> >>

skillsExclusionFilter(job) ==
    LET title    == Lower(job.title)
        desc     == Lower(job.description)
        combined == Joined(title, desc)
    IN  /\ \A n \in 1..Len(excludedTech) : ~Contains(excludedTech[n], title)
        /\ \A n \in 1..Len(excludedTech) : Count(excludedTech[n], combined) < 2

(***************************************************************************)
(* Python's float: IEEE 754 binary64.  Every operation returns the float   *)
(* nearest to the exact result, a tie going to the even significand.  The  *)
(* scorer's values are far from the subnormal range and from overflow,     *)
(* which are left out.                                                     *)
(***************************************************************************)
RECURSIVE Pow2(_)
Pow2(k) == IF k = 0 THEN 1 ELSE 2 * Pow2(k - 1)

\* A natural number of any size is the sequence of its digits to the base
\* 2^15, the least significant first and the last one not 0 (a product of
\* two significands of 53 bits does not fit TLC's integers).
Radix == Pow2(15)

RECURSIVE Digits(_)
Digits(n) == IF n = 0 THEN << >> ELSE <<n % Radix>> \o Digits(n \div Radix)

RECURSIVE Number(_)
Number(a) == IF a = << >> THEN 0 ELSE Head(a) + Radix * Number(Tail(a))

RECURSIVE Trimmed(_)
Trimmed(a) ==
    IF a = << >> \/ a[Len(a)] # 0 THEN a ELSE Trimmed(SubSeq(a, 1, Len(a) - 1))

RECURSIVE SumFrom(_, _, _)
SumFrom(a, b, carry) ==
    IF a = << >> /\ b = << >> THEN Digits(carry)
    ELSE LET x == IF a = << >> THEN 0 ELSE Head(a)
             y == IF b = << >> THEN 0 ELSE Head(b)
             s == x + y + carry
         IN  <<s % Radix>> \o SumFrom(IF a = << >> THEN a ELSE Tail(a),
                                      IF b = << >> THEN b ELSE Tail(b),
                                      s \div Radix)

Sum(a, b) == SumFrom(a, b, 0)

\* a times the digit d, plus carry
RECURSIVE TimesDigit(_, _, _)
TimesDigit(a, d, carry) ==
    IF a = << >> THEN Digits(carry)
    ELSE LET p == Head(a) * d + carry
         IN  <<p % Radix>> \o TimesDigit(Tail(a), d, p \div Radix)

RECURSIVE Product(_, _)
Product(a, b) ==
    IF a = << >> \/ b = << >> THEN << >>
    ELSE Sum(Trimmed(TimesDigit(a, Head(b), 0)),
             IF Tail(b) = << >> THEN << >> ELSE <<0>> \o Product(a, Tail(b)))

\* a divided by d, for 0 < d < Radix: the quotient and the remainder
RECURSIVE DividedBy(_, _)
DividedBy(a, d) ==
    IF a = << >> THEN [quot |-> << >>, rem |-> 0]
    ELSE LET upper == DividedBy(Tail(a), d)
             cur   == upper.rem * Radix + Head(a)
         IN  [quot |-> <<cur \div d>> \o upper.quot, rem |-> cur % d]

RECURSIVE BitsOf(_)
BitsOf(n) == IF n = 0 THEN 0 ELSE 1 + BitsOf(n \div 2)

BitLength(a) == IF a = << >> THEN 0 ELSE 15 * (Len(a) - 1) + BitsOf(a[Len(a)])

\* a * 2^k
ShiftedLeft(a, k) ==
    IF a = << >> THEN a
    ELSE [i \in 1..(k \div 15) |-> 0] \o Trimmed(TimesDigit(a, Pow2(k % 15), 0))

\* a \div 2^k, and whether a bit that is 1 was dropped
ShiftedRight(a, k) ==
    LET n == Min(k \div 15, Len(a))
        d == DividedBy(SubSeq(a, n + 1, Len(a)), Pow2(k % 15))
    IN  [quot    |-> Trimmed(d.quot),
         inexact |-> d.rem # 0 \/ \E i \in 1..n : a[i] # 0]

\* A float is m * 2^e with a significand m of exactly 53 bits, or zero.
FloatZero == [m |-> << >>, e |-> 0]

\* The float nearest to (a + f) * 2^e, a tie going to the even significand;
\* f is 0, or some fraction strictly between 0 and 1 when inexact (then a
\* has 55 bits or more)
Rounded(a, e, inexact) ==
    IF a = << >> THEN FloatZero
    ELSE LET len == BitLength(a)
         IN  IF len <= 53
             THEN [m |-> ShiftedLeft(a, 53 - len), e |-> e - (53 - len)]
             ELSE LET h  == ShiftedRight(a, len - 54)
                      t  == ShiftedRight(h.quot, 1)
                      up == t.inexact
                              /\ (h.inexact \/ inexact \/ t.quot[1] % 2 = 1)
                      m  == IF up THEN Sum(t.quot, <<1>>) ELSE t.quot
                  IN  IF BitLength(m) = 54
                      THEN [m |-> ShiftedRight(m, 1).quot, e |-> e + len - 52]
                      ELSE [m |-> m, e |-> e + len - 53]

\* float(n) for an int n >= 0
FloatOf(n) == Rounded(Digits(n), 0, FALSE)

\* x * y
FloatTimes(x, y) == Rounded(Product(x.m, y.m), x.e + y.e, FALSE)

\* x + y
FloatPlus(x, y) ==
    IF x.m = << >> THEN y
    ELSE IF y.m = << >> THEN x
    ELSE LET e == Min(x.e, y.e)
         IN  Rounded(Sum(ShiftedLeft(x.m, x.e - e), ShiftedLeft(y.m, y.e - e)),
                     e, FALSE)

\* x / d for an int d, 0 < d < Radix
FloatOver(x, d) ==
    IF x.m = << >> THEN x
    ELSE LET q == DividedBy(ShiftedLeft(x.m, 17), d)
         IN  Rounded(Trimmed(q.quot), x.e - 17, q.rem # 0)

\* int(x) for x >= 0
Truncated(x) ==
    IF x.e >= 0 THEN Number(ShiftedLeft(x.m, x.e))
    ELSE Number(ShiftedRight(x.m, 0 - x.e).quot)

\* the float a decimal literal of the value n/d denotes (0.70 is 70/100),
\* which is also the float n / d of two ints
Literal(n, d) == FloatOver(FloatOf(n), d)

(***************************************************************************)
(* Scorer                                                                  *)
(***************************************************************************)
\* the synonym table, in the order of the dictionary
synonyms ==
    << [key |-> <<"n","e","x","t",".","j","s">>,    syns |-> << <<"n","e","x","t","j","s">>, <<"n","e","x","t"," ","j","s">>, <<"r","e","a","c","t"," ","f","r","a","m","e","w","o","r","k">> >>],
       [key |-> <<"n","e","s","t",".","j","s">>,    syns |-> << <<"n","e","s","t","j","s">>, <<"n","e","s","t"," ","j","s">> >>],
       [key |-> <<"r","e","a","c","t">>,      syns |-> << <<"r","e","a","c","t","j","s">>, <<"r","e","a","c","t",".","j","s">> >>],
       [key |-> <<"n","o","d","e">>,       syns |-> << <<"n","o","d","e","j","s">>, <<"n","o","d","e",".","j","s">> >>],
       [key |-> <<"m","o","n","g","o","d","b">>,    syns |-> << <<"m","o","n","g","o">>, <<"n","o","s","q","l">>, <<"d","a","t","a","b","a","s","e">> >>],
       [key |-> <<"t","y","p","e","s","c","r","i","p","t">>, syns |-> << <<"t","s">>, <<"j","a","v","a","s","c","r","i","p","t">> >>],
       [key |-> <<"p","y","t","h","o","n">>,     syns |-> << <<"p","y">> >>],
       [key |-> <<"f","a","s","t","a","p","i">>,    syns |-> << <<"f","a","s","t"," ","a","p","i">>, <<"p","y","t","h","o","n"," ","b","a","c","k","e","n","d">> >>],
       [key |-> <<"a","i">>,         syns |-> << <<"a","r","t","i","f","i","c","i","a","l"," ","i","n","t","e","l","l","i","g","e","n","c","e">>, <<"m","a","c","h","i","n","e"," ","l","e","a","r","n","i","n","g">>, <<"m","l">> >>],
       [key |-> <<"f","u","l","l"," ","s","t","a","c","k">>, syns |-> << <<"f","u","l","l","s","t","a","c","k">>, <<"f","u","l","l","-","s","t","a","c","k">>, <<"f","r","o","n","t","e","n","d">>, <<"b","a","c","k","e","n","d">> >>] >>

\* what one skill adds to matches, in tenths: 10 for the skill itself in the
\* text, 8 for a synonym of a family the skill belongs to, else 0
SkillCredit(skill, text) ==
    LET s == Lower(skill)
    IN  IF Contains(s, text) THEN 10
        ELSE IF \E n \in 1..Len(synonyms) :
                   /\ Contains(synonyms[n].key, s) \/ Contains(s, synonyms[n].key)
                   /\ AnyIn(synonyms[n].syns, text)
             THEN 8
             ELSE 0

\* matches after the first n skills of cvSkills: 1 is added for a skill in
\* the text, 0.8 for a synonym match
RECURSIVE MatchesAfter(_, _, _)
MatchesAfter(skills, text, n) ==
    IF n = 0 THEN FloatZero
    ELSE LET credit == SkillCredit(skills[n], text)
         IN  FloatPlus(MatchesAfter(skills, text, n - 1),
                       IF credit = 10 THEN FloatOf(1)
                       ELSE IF credit = 8 THEN Literal(8, 10)
                       ELSE FloatZero)

\* matches / total, or 0 for an empty profile
computeKeywordScore(job, skills) ==
    LET text  == Lower(Joined(job.title, job.description))
        total == Len(skills)
    IN  IF total > 0 THEN FloatOver(MatchesAfter(skills, text, total), total)
        ELSE FloatZero

freshKeywords ==
    << <<"f","r","e","s","h">>, <<"j","u","n","i","o","r">>, <<"e","n","t","r","y">>, <<"g","r","a","d","u","a","t","e">>, <<"i","n","t","e","r","n">>, <<"t","r","a","i","n","e","e">>, <<"a","s","s","o","c","i","a","t","e">> >>

highPriorityRoles ==
    << <<"m","e","r","n">>, <<"m","e","a","n">>, <<"f","u","l","l"," ","s","t","a","c","k">>, <<"f","u","l","l","s","t","a","c","k">>, <<"f","u","l","l","-","s","t","a","c","k">>,
       <<"w","e","b"," ","d","e","v","e","l","o","p","e","r">>, <<"r","e","a","c","t">>, <<"n","e","x","t",".","j","s">>, <<"n","e","x","t","j","s">>, <<"n","o","d","e",".","j","s">>, <<"n","o","d","e","j","s">>,
       <<"j","a","v","a","s","c","r","i","p","t"," ","d","e","v","e","l","o","p","e","r">>, <<"t","y","p","e","s","c","r","i","p","t"," ","d","e","v","e","l","o","p","e","r">>, <<"f","r","o","n","t","e","n","d">>, <<"b","a","c","k","e","n","d">> >>
mediumPriorityRoles == << <<"s","o","f","t","w","a","r","e"," ","e","n","g","i","n","e","e","r">>, <<"s","o","f","t","w","a","r","e"," ","d","e","v","e","l","o","p","e","r">>, <<"p","r","o","g","r","a","m","m","e","r">> >>
lowPriorityRoles ==
    << <<"a","i"," ","e","n","g","i","n","e","e","r">>, <<"m","l"," ","e","n","g","i","n","e","e","r">>, <<"d","a","t","a"," ","s","c","i","e","n","c","e">>, <<"m","a","c","h","i","n","e"," ","l","e","a","r","n","i","n","g">> >>

\* the boosts, in hundredths
freshGradBoost(job) ==
    IF \E n \in 1..Len(freshKeywords) :
          \/ Contains(freshKeywords[n], Lower(job.title))
          \/ Contains(freshKeywords[n], Lower(job.description))
    THEN 15 ELSE 0

roleBoost(job) ==
    LET combined == Joined(Lower(job.title), Lower(job.description))
    IN  IF AnyIn(highPriorityRoles, combined) THEN 20
        ELSE IF AnyIn(mediumPriorityRoles, combined) THEN 10
        ELSE IF AnyIn(lowPriorityRoles, combined) THEN 5
        ELSE 0

\* the cosine similarities the embedding model may return, in hundredths
CosineValues == {-20, 0, 33, 43, 95}

\* the cosine similarities of a call of scoreJobHybrid on its own
ScoreCosines == CosineValues \cup {57}

\* a variant without the cap at 100
scoreJobHybrid_uncapped(job, cosine, skills) ==
    LET cosineScore  == IF cosine > 0 THEN Literal(cosine, 100) ELSE FloatZero
        keywordScore == computeKeywordScore(job, skills)
        baseScore    == FloatPlus(FloatTimes(cosineScore, Literal(70, 100)),
                                  FloatTimes(keywordScore, Literal(30, 100)))
        boosted      == FloatPlus(FloatPlus(baseScore,
                                            Literal(freshGradBoost(job), 100)),
                                  Literal(roleBoost(job), 100))
    IN  Truncated(FloatTimes(boosted, FloatOf(100)))

\* scoreJobHybrid for a cosine similarity of cosine/100 between the profile
\* embedding and the job embedding (the embedding model is outside the
\* program): cosineScore = max(0, cosineScore), baseScore = cosineScore *
\* 0.70 + keywordScore * 0.30, totalScore = int((baseScore + freshGradBoost +
\* roleBoost) * 100), min(100, totalScore); every step in float arithmetic
scoreJobHybrid(job, cosine, skills) ==
    LET cosineScore  == IF cosine > 0 THEN Literal(cosine, 100) ELSE FloatZero
        keywordScore == computeKeywordScore(job, skills)
        baseScore    == FloatPlus(FloatTimes(cosineScore, Literal(70, 100)),
                                  FloatTimes(keywordScore, Literal(30, 100)))
        boosted      == FloatPlus(FloatPlus(baseScore,
                                            Literal(freshGradBoost(job), 100)),
                                  Literal(roleBoost(job), 100))
        totalScore   == Truncated(FloatTimes(boosted, FloatOf(100)))
    IN  Min(100, totalScore)

(***************************************************************************)
(* History store (job_history.py)                                          *)
(***************************************************************************)
retention_days == 7

\* datetime.isoformat(): fixed-width, zero-padded decimal fields, the most
\* significant first; for a day count, two digits
isoformat(t) == <<t \div 10, t % 10>>

\* the day a timestamp text stands for
StampDay(ts) == 10 * ts[1] + ts[2]

\* a > b on str: the first differing character decides, else the longer text
TextGreater(a, b) ==
    LET n    == Min(Len(a), Len(b))
        diff == {i \in 1..n : a[i] # b[i]}
    IN  IF diff = {} THEN Len(a) > Len(b)
        ELSE LET i == CHOOSE d \in diff : \A e \in diff : d <= e
             IN  a[i] > b[i]

\* The in-memory history is what json.load returned: a dict (a function from
\* job id to timestamp text) or, for a file holding a JSON array, a list.
Dict(m) == [kind |-> "dict", entries |-> m]
List(l) == [kind |-> "list", items |-> l]
EmptyDict == Dict(<< >>)

\* The durable file: absent, not parseable as JSON ("garbage": also an empty
\* or truncated file), a JSON array of texts, or a JSON object.
Absent == [kind |-> "absent"]
Garbage == [kind |-> "garbage"]
ArrayFile(l) == [kind |-> "array", items |-> l]
ObjectFile(m) == [kind |-> "object", entries |-> m]

_load_history(f) ==
    IF f.kind = "absent" THEN EmptyDict
    ELSE IF f.kind = "garbage" THEN EmptyDict
    ELSE IF f.kind = "array" THEN List(f.items)
    ELSE Dict(f.entries)

\* The outcomes of open(.., 'w') followed by json.dump: "ok"; "open_fails"
\* (nothing touched); "write_fails" (open truncated the file, the dump did not
\* complete).  The exception is caught in both failures.
SaveOutcomes == {"ok", "open_fails", "write_fails"}

\* a variant that removes the file when it cannot open it
_save_history_unlinks(h, f, outcome) ==
    IF outcome = "open_fails" THEN Absent
    ELSE IF outcome = "write_fails" THEN Garbage
    ELSE IF h.kind = "list" THEN ArrayFile(h.items)
    ELSE ObjectFile(h.entries)

\* the file after _save_history
_save_history(h, f, outcome) ==
    IF outcome = "open_fails" THEN f
    ELSE IF outcome = "write_fails" THEN Garbage
    ELSE IF h.kind = "list" THEN ArrayFile(h.items)
    ELSE ObjectFile(h.entries)

\* a variant that never finds a job
is_sent_never(h, id) == FALSE

is_sent(h, id) ==
    IF h.kind = "list" THEN \E i \in 1..Len(h.items) : h.items[i] = id
    ELSE id \in DOMAIN h.entries

\* a variant that keeps every entry
KeptEntries_all(m, t) == m

\* the entries cleanup_old_entries keeps
KeptEntries(m, t) ==
    LET cutoff_timestamp == isoformat(t - retention_days)
        keep == {k \in DOMAIN m : TextGreater(m[k], cutoff_timestamp)}
    IN  [k \in keep |-> m[k]]

\* the entries cleanup_old_entries drops at time t, those it does not keep
RemovedEntries(h, t) ==
    IF h.kind = "list" THEN << >>
    ELSE [k \in DOMAIN h.entries \ DOMAIN KeptEntries(h.entries, t) |->
             h.entries[k]]

\* cleanup_old_entries at time t with the file f: whether it raises (a list
\* has no items()), the history and the file afterwards, what it returns,
\* and whether it called _save_history
cleanup_old_entries(h, f, t, outcome) ==
    IF h.kind = "list"
    THEN [raised |-> TRUE, history |-> h, file |-> f, removed_count |-> 0,
          saved |-> "none"]
    ELSE LET kept          == KeptEntries(h.entries, t)
             removed_count == Cardinality(DOMAIN h.entries) - Cardinality(DOMAIN kept)
         IN  [raised        |-> FALSE,
              history       |-> Dict(kept),
              file          |-> IF removed_count > 0
                                THEN _save_history(Dict(kept), f, outcome) ELSE f,
              removed_count |-> removed_count,
              saved         |-> IF removed_count > 0 THEN outcome ELSE "none"]

\* a variant that saves before it records the entry
mark_as_sent_savesFirst(h, f, id, t, outcome) ==
    IF h.kind = "list"
    THEN [raised |-> TRUE, history |-> h, file |-> f, saved |-> "none"]
    ELSE LET m == [k \in DOMAIN h.entries \cup {id} |->
                      IF k = id THEN isoformat(t) ELSE h.entries[k]]
         IN  [raised  |-> FALSE,
              history |-> Dict(m),
              file    |-> _save_history(h, f, outcome),
              saved   |-> outcome]

\* a variant that drops the entries past the retention window as it records
mark_as_sent_evicting(h, f, id, t, outcome) ==
    IF h.kind = "list"
    THEN [raised |-> TRUE, history |-> h, file |-> f, saved |-> "none"]
    ELSE LET kept == KeptEntries(h.entries, t)
             m    == [k \in DOMAIN kept \cup {id} |->
                         IF k = id THEN isoformat(t) ELSE kept[k]]
         IN  [raised  |-> FALSE,
              history |-> Dict(m),
              file    |-> _save_history(Dict(m), f, outcome),
              saved   |-> outcome]

\* mark_as_sent at time t: a list raises on the item assignment, before the save
mark_as_sent(h, f, id, t, outcome) ==
    IF h.kind = "list"
    THEN [raised |-> TRUE, history |-> h, file |-> f, saved |-> "none"]
    ELSE LET m == [k \in DOMAIN h.entries \cup {id} |->
                      IF k = id THEN isoformat(t) ELSE h.entries[k]]
         IN  [raised  |-> FALSE,
              history |-> Dict(m),
              file    |-> _save_history(Dict(m), f, outcome),
              saved   |-> outcome]

(***************************************************************************)
(* The scrapers.  An element of a page is given by its text (the text of   *)
(* its one string, entities decoded) or by the value of its href; None     *)
(* stands for an element or an attribute the page does not have.  A card   *)
(* of a company page holds at most one link and no other card.             *)
(***************************************************************************)
\* safeText(el): el.get_text(strip=True), "" for no element
safeText(el) == IF el = None THEN << >> ELSE Strip(el)

\* s.startswith(p)
StartsWith(s, p) == Len(s) >= Len(p) /\ SubSeq(s, 1, Len(p)) = p

\* the index of the first character of s that is in set, 0 when none
FirstIn(set, s) ==
    LET at == {i \in 1..Len(s) : s[i] \in set}
    IN  IF at = {} THEN 0 ELSE CHOOSE i \in at : \A j \in at : i <= j

\* s.split(c)
RECURSIVE Split(_, _)
Split(s, c) ==
    LET i == FirstIn({c}, s)
    IN  IF i = 0 THEN <<s>>
        ELSE <<SubSeq(s, 1, i - 1)>> \o Split(SubSeq(s, i + 1, Len(s)), c)

\* c.join(parts)
RECURSIVE Join(_, _)
Join(parts, c) ==
    IF Len(parts) = 0 THEN << >>
    ELSE IF Len(parts) = 1 THEN parts[1]
    ELSE parts[1] \o <<c>> \o Join(Tail(parts), c)

\* urllib.parse: the schemes that take a relative URL, a network location,
\* parameters
uses_relative ==
    << << >>, <<"f","t","p">>, <<"h","t","t","p">>, <<"g","o","p","h","e","r">>, <<"n","n","t","p">>, <<"i","m","a","p">>, <<"w","a","i","s">>,
       <<"f","i","l","e">>, <<"h","t","t","p","s">>, <<"s","h","t","t","p">>, <<"m","m","s">>, <<"p","r","o","s","p","e","r","o">>, <<"r","t","s","p">>,
       <<"r","t","s","p","s">>, <<"r","t","s","p","u">>, <<"s","f","t","p">>, <<"s","v","n">>, <<"s","v","n","+","s","s","h">>, <<"w","s">>,
       <<"w","s","s">> >>

uses_netloc ==
    << << >>, <<"f","t","p">>, <<"h","t","t","p">>, <<"g","o","p","h","e","r">>, <<"n","n","t","p">>, <<"t","e","l","n","e","t">>, <<"i","m","a","p">>,
       <<"w","a","i","s">>, <<"f","i","l","e">>, <<"m","m","s">>, <<"h","t","t","p","s">>, <<"s","h","t","t","p">>, <<"s","n","e","w","s">>,
       <<"p","r","o","s","p","e","r","o">>, <<"r","t","s","p">>, <<"r","t","s","p","s">>, <<"r","t","s","p","u">>, <<"r","s","y","n","c">>, <<"s","v","n">>,
       <<"s","v","n","+","s","s","h">>, <<"s","f","t","p">>, <<"n","f","s">>, <<"g","i","t">>, <<"g","i","t","+","s","s","h">>, <<"w","s">>,
       <<"w","s","s">> >>

uses_params ==
    << << >>, <<"f","t","p">>, <<"h","d","l">>, <<"p","r","o","s","p","e","r","o">>, <<"h","t","t","p">>, <<"i","m","a","p">>, <<"h","t","t","p","s">>,
       <<"s","h","t","t","p">>, <<"r","t","s","p">>, <<"r","t","s","p","s">>, <<"r","t","s","p","u">>, <<"s","i","p">>, <<"s","i","p","s">>, <<"m","m","s">>,
       <<"s","f","t","p">>, <<"t","e","l">> >>

\* s in list
Listed(list, s) == \E n \in 1..Len(list) : list[n] = s

\* the characters urlsplit strips from the head of a URL: U+0001 to U+0020
\* (urlsplit strips U+0000 too, which no URL of the model holds)
C0OrSpace ==
    {" ", "\t", "\n", "\r", "\f", "", "", "", "", "", "", "", "", "", "", "", "", "", "", "", "", "", "", "", "", "", "", "", "", "", "", ""}

\* s[i:], and s[:i-1] and s[i+1:] for the index i of a separator (the whole
\* of s and nothing when there is no separator)
From(s, i) == SubSeq(s, i, Len(s))
Before(s, i) == IF i = 0 THEN s ELSE SubSeq(s, 1, i - 1)
After(s, i) == IF i = 0 THEN << >> ELSE SubSeq(s, i + 1, Len(s))

\* s.lstrip(C0OrSpace)
LStripped(s) ==
    LET keep == {i \in 1..Len(s) : s[i] \notin C0OrSpace}
    IN  IF keep = {} THEN << >>
        ELSE From(s, CHOOSE i \in keep : \A j \in keep : i <= j)

\* s without the characters of set
RECURSIVE Without(_, _)
Without(s, set) ==
    IF Len(s) = 0 THEN << >>
    ELSE (IF Head(s) \in set THEN << >> ELSE <<Head(s)>>)
            \o Without(Tail(s), set)

\* the scheme of a URL, lower-cased, << >> when it has none: the characters
\* before its first ":" when they are a letter followed by letters, digits,
\* "+", "-" and "."
IsAsciiLetter(c) == \E i \in 1..26 : c = LowerCase[i] \/ c = UpperCase[i]

SchemeOf(url) ==
    LET i == FirstIn({":"}, url)
        digits == {"0", "1", "2", "3", "4", "5", "6", "7", "8", "9"}
    IN  IF /\ i > 1
           /\ IsAsciiLetter(url[1])
           /\ \A k \in 1..(i - 1) :
                 IsAsciiLetter(url[k]) \/ url[k] \in digits \cup {"+", "-", "."}
        THEN Lower(SubSeq(url, 1, i - 1))
        ELSE << >>

\* urlsplit: the path and the query of what comes before the fragment
SplitQuery(scheme, netloc, front, fragment) ==
    [scheme   |-> scheme,
     netloc   |-> netloc,
     path     |-> Before(front, FirstIn({"?"}, front)),
     query    |-> After(front, FirstIn({"?"}, front)),
     fragment |-> fragment]

\* urlsplit: the fragment of what comes after the network location
SplitFragment(scheme, netloc, tail) ==
    SplitQuery(scheme, netloc, Before(tail, FirstIn({"#"}, tail)),
               After(tail, FirstIn({"#"}, tail)))

\* urlsplit: the network location, which ends at index stop of what comes
\* after "//"
SplitAt(scheme, after, stop) ==
    SplitFragment(scheme, Before(after, stop),
                  IF stop = 0 THEN << >> ELSE From(after, stop))

\* urlsplit: what comes after the scheme
SplitNetloc(scheme, rest) ==
    IF StartsWith(rest, <<"/", "/">>)
    THEN SplitAt(scheme, From(rest, 3), FirstIn({"/", "?", "#"}, From(rest, 3)))
    ELSE SplitFragment(scheme, << >>, rest)

\* urlsplit, given the scheme the URL holds
SplitScheme(own, url, scheme) ==
    IF own = << >> THEN SplitNetloc(scheme, url)
    ELSE SplitNetloc(own, From(url, Len(own) + 2))

\* urlsplit, for a URL with its head stripped and without tab, CR and LF
SplitClean(url, scheme) == SplitScheme(SchemeOf(url), url, scheme)

\* urlsplit(url, scheme): the scheme, the network location, the path, the
\* query and the fragment of a URL, scheme being the scheme of a URL that
\* holds none; for a URL whose network location is without "[" and "]",
\* where urlsplit raises ValueError or reads an IPv6 address
urlsplit(url, scheme) ==
    SplitClean(Without(LStripped(url), {"\t", "\r", "\n"}), scheme)

\* _splitparams: the index of the last "/" of a path, 1 when it has none
LastSlash(path) ==
    LET at == {i \in 1..Len(path) : path[i] = "/"}
    IN  IF at = {} THEN 1 ELSE CHOOSE i \in at : \A j \in at : i >= j

\* _splitparams: the index of the ";" that starts the parameters of a path,
\* the first one from its last "/" on, 0 when there is none
ParamsFrom(path, from) ==
    IF FirstIn({";"}, From(path, from)) = 0 THEN 0
    ELSE from + FirstIn({";"}, From(path, from)) - 1

\* urlparse, for a URL that urlsplit has split
WithParams(u, at) ==
    [scheme   |-> u.scheme,
     netloc   |-> u.netloc,
     path     |-> Before(u.path, at),
     params   |-> After(u.path, at),
     query    |-> u.query,
     fragment |-> u.fragment]

Parsed(u) ==
    WithParams(u, IF Listed(uses_params, u.scheme)
                  THEN ParamsFrom(u.path, LastSlash(u.path)) ELSE 0)

\* urlparse(url, scheme)
urlparse(url, scheme) == Parsed(urlsplit(url, scheme))

\* urlunsplit: the network location and the path
Located(u) ==
    IF \/ u.netloc # << >>
       \/ /\ u.scheme # << >>
          /\ Listed(uses_netloc, u.scheme)
          /\ ~StartsWith(u.path, <<"/", "/">>)
    THEN <<"/", "/">> \o u.netloc
            \o (IF u.path # << >> /\ u.path[1] # "/" THEN <<"/">> ELSE << >>)
            \o u.path
    ELSE u.path

\* urlunsplit(u)
urlunsplit(u) ==
    (IF u.scheme = << >> THEN << >> ELSE u.scheme \o <<":">>)
        \o Located(u)
        \o (IF u.query = << >> THEN << >> ELSE <<"?">> \o u.query)
        \o (IF u.fragment = << >> THEN << >> ELSE <<"#">> \o u.fragment)

\* urlunparse(u)
urlunparse(u) ==
    urlunsplit([scheme   |-> u.scheme,
                netloc   |-> u.netloc,
                path     |-> IF u.params = << >> THEN u.path
                             ELSE u.path \o <<";">> \o u.params,
                query    |-> u.query,
                fragment |-> u.fragment])

\* the segments of a path with "." dropped and ".." taking the segment
\* before it
RECURSIVE Resolved(_, _)
Resolved(segments, done) ==
    IF Len(segments) = 0 THEN done
    ELSE IF Head(segments) = <<".", ".">>
         THEN Resolved(Tail(segments),
                       IF Len(done) = 0 THEN done ELSE SubSeq(done, 1, Len(done) - 1))
    ELSE IF Head(segments) = <<".">> THEN Resolved(Tail(segments), done)
    ELSE Resolved(Tail(segments), Append(done, Head(segments)))

\* the segments but the first and the last without the empty ones
RECURSIVE NonEmpty(_)
NonEmpty(segments) ==
    IF Len(segments) = 0 THEN << >>
    ELSE IF Len(Head(segments)) = 0 THEN NonEmpty(Tail(segments))
    ELSE <<Head(segments)>> \o NonEmpty(Tail(segments))

Squeezed(segments) ==
    IF Len(segments) <= 2 THEN segments
    ELSE <<segments[1]>> \o NonEmpty(SubSeq(segments, 2, Len(segments) - 1))
            \o <<segments[Len(segments)]>>

\* the segments of the path of the base without the last one, unless it is
\* empty
BaseSegments(parts) ==
    IF parts[Len(parts)] # << >> THEN SubSeq(parts, 1, Len(parts) - 1) ELSE parts

\* the path these segments resolve to
ResolvedPath(segments) ==
    Join(Resolved(segments, << >>)
            \o (IF segments[Len(segments)] \in {<<".">>, <<".", ".">>}
                THEN << << >> >> ELSE << >>), "/")

\* "/" for the empty path
OrRoot(path) == IF path = << >> THEN <<"/">> ELSE path

\* urljoin, for a URL of the scheme of the base that holds no network
\* location, netloc being the one the result takes
Relative(b, u, netloc) ==
    IF u.path = << >> /\ u.params = << >>
    THEN urlunparse([u EXCEPT !.netloc = netloc, !.path = b.path,
                              !.params = b.params,
                              !.query = IF u.query = << >> THEN b.query
                                        ELSE u.query])
    ELSE urlunparse([u EXCEPT
            !.netloc = netloc,
            !.path = OrRoot(ResolvedPath(
                        IF StartsWith(u.path, <<"/">>) THEN Split(u.path, "/")
                        ELSE Squeezed(BaseSegments(Split(b.path, "/"))
                                        \o Split(u.path, "/"))))])

\* urljoin, for a base and a URL that urlparse has parsed
Merged(b, u, url) ==
    IF u.scheme # b.scheme \/ ~Listed(uses_relative, u.scheme) THEN url
    ELSE IF ~Listed(uses_netloc, u.scheme) THEN Relative(b, u, u.netloc)
    ELSE IF u.netloc # << >> THEN urlunparse(u)
    ELSE Relative(b, u, b.netloc)

\* urljoin, for a base that urlparse has parsed
JoinedTo(b, url) == Merged(b, urlparse(url, b.scheme), url)

\* urljoin(base, url)
urljoin(base, url) ==
    IF base = << >> THEN url
    ELSE IF url = << >> THEN base
    ELSE JoinedTo(urlparse(base, << >>), url)

\* a link of a company page made absolute
Absolute(page, href) ==
    IF href # << >> /\ ~StartsWith(href, <<"h","t","t","p">>) THEN urljoin(page, href)
    ELSE href

\* scrapeLinkedIn, for one card: the job it adds, NoJob when it adds none
linkedInJob(card) ==
    LET title   == safeText(card.title)
        company == safeText(card.company)
        loc     == safeText(card.location)
        link    == IF card.link = None THEN << >> ELSE card.link
    IN  IF title # << >> /\ company # << >>
        THEN normalizeJob(title, company, loc,
                          title \o <<" ","p","o","s","i","t","i","o","n"," ","a","t"," ">> \o company
                                \o <<"."," ","L","o","c","a","t","i","o","n",":"," ">> \o loc,
                          link)
        ELSE NoJob

\* the link texts scrapeCompanyPages passes over
menuTexts == << <<"c","a","r","e","e","r","s">>, <<"j","o","b","s">>, <<"a","p","p","l","y">>, <<"v","i","e","w"," ","a","l","l">>, <<"s","e","e"," ","a","l","l">> >>

linkKeywords ==
    allowedRoles \o << <<"s","o","f","t","w","a","r","e">>, <<"d","e","v","e","l","o","p","e","r">>, <<"e","n","g","i","n","e","e","r">>, <<"p","y","t","h","o","n">>,
                       <<"j","a","v","a","s","c","r","i","p","t">>, <<"f","r","o","n","t","e","n","d">>, <<"b","a","c","k","e","n","d">>, <<"f","u","l","l","s","t","a","c","k">>,
                       <<"w","e","b">>, <<"r","e","a","c","t">>, <<"n","o","d","e">>, <<"a","i">>, <<"m","l">>, <<"d","a","t","a">>,
                       <<"m","e","r","n">>, <<"m","e","a","n">>, <<"d","j","a","n","g","o">>, <<"i","n","t","e","r","n">> >>

cardKeywords == allowedRoles \o << <<"s","o","f","t","w","a","r","e">>, <<"d","e","v","e","l","o","p","e","r">>, <<"e","n","g","i","n","e","e","r">> >>

\* the city scrapeCompanyPages gives every job
companyLocation == <<"l","a","h","o","r","e">>

\* what the href of a link holds for scrapeCompanyPages to select the link
linkMarks == << <<"j","o","b">>, <<"c","a","r","e","e","r">>, <<"p","o","s","i","t","i","o","n">>, <<"o","p","e","n","i","n","g">>, <<"a","p","p","l","y">>,
               <<"v","a","c","a","n","c">> >>

\* scrapeCompanyPages, for one link "a" of the page of company c
companyLinkJob(c, a) ==
    LET text == Lower(safeText(a.title))
        href == IF a.link = None THEN << >> ELSE a.link
    IN  IF ~AnyIn(linkMarks, href) THEN NoJob
        ELSE IF Len(text) < 5 \/ (\E n \in 1..Len(menuTexts) : text = menuTexts[n]) THEN NoJob
        ELSE IF ~AnyIn(linkKeywords, text) THEN NoJob
        ELSE normalizeJob(text, c.name, companyLocation, text,
                          Absolute(c.careerPage, href))

\* the bounds scrapeCompanyPages sets on the length of a card's title
minTitle == 5
maxTitle == 100

\* scrapeCompanyPages, for one card of the page of company c
companyCardJob(c, card) ==
    LET title == safeText(card.title)
    IN  IF title = << >> \/ Len(title) <= minTitle \/ Len(title) >= maxTitle
        THEN NoJob
        ELSE IF ~AnyIn(cardKeywords, Lower(title)) THEN NoJob
        ELSE normalizeJob(title, c.name, companyLocation,
                          IF card.description = None THEN title
                          ELSE safeText(card.description),
                          IF card.link = None \/ card.link = << >>
                          THEN c.careerPage
                          ELSE IF StartsWith(card.link, <<"h","t","t","p">>) THEN card.link
                          ELSE urljoin(c.careerPage, card.link))

(***************************************************************************)
(* The elements the sites return: LinkedIn cards, and links and cards of   *)
(* the career page of a company of companies.json.  The link of a card is  *)
(* the first link inside it, an element of the page that anchor names;     *)
(* the title of card 5 is the text of its link.                            *)
(***************************************************************************)
Elements ==
    << [source |-> "linkedin", title |-> <<"J","u","n","i","o","r"," ","P","y","t","h","o","n"," ","D","e","v","e","l","o","p","e","r">>,
        company |-> <<"A","c","m","e">>, location |-> <<"L","a","h","o","r","e">>, description |-> None,
        link |-> <<"h","t","t","p","s",":","/","/","l",".","i","n","v","a","l","i","d","/","j","o","b","s","/","v","i","e","w","/","1">>, page |-> None,
        anchor |-> 0],
       [source |-> "card", title |-> <<" ","J","u","n","i","o","r"," ","P","y","t","h","o","n"," ","D","e","v","e","l","o","p","e","r">>,
        company |-> <<"A","C","M","E">>, location |-> None, description |-> <<"<","p",">","P","y","t","h","o","n","<","/","p",">">>,
        link |-> None, page |-> <<"h","t","t","p",":","/","/","a","c","m","e",".","i","n","v","a","l","i","d","/","c","a","r","e","e","r","s">>,
        anchor |-> 13],
       [source |-> "linkedin", title |-> <<"S","a","l","e","s"," ","O","f","f","i","c","e","r">>,
        company |-> <<"B","e","t","a">>, location |-> <<"L","a","h","o","r","e">>, description |-> None,
        link |-> None, page |-> None,
        anchor |-> 0],
       [source |-> "linkedin", title |-> <<"R","e","a","c","t"," ","D","e","v","e","l","o","p","e","r">>,
        company |-> <<"G","a","m","m","a">>, location |-> <<"B","e","r","l","i","n">>, description |-> None,
        link |-> <<"h","t","t","p","s",":","/","/","l",".","i","n","v","a","l","i","d","/","j","o","b","s","/","v","i","e","w","/","4">>, page |-> None,
        anchor |-> 0],
       [source |-> "card", title |-> <<"S","e","n","i","o","r"," ","R","e","a","c","t"," ","D","e","v","e","l","o","p","e","r">>,
        company |-> <<"G","a","m","m","a">>, location |-> None, description |-> <<"f","r","e","s","h"," ","g","r","a","d","u","a","t","e","s"," ","w","e","l","c","o","m","e">>,
        link |-> None, page |-> <<"h","t","t","p","s",":","/","/","g","a","m","m","a",".","i","n","v","a","l","i","d","/","c","a","r","e","e","r","s","/">>,
        anchor |-> 14],
       [source |-> "card", title |-> <<"A","n","d","r","o","i","d"," ","D","e","v","e","l","o","p","e","r">>,
        company |-> <<"G","a","m","m","a">>, location |-> None, description |-> <<"m","o","b","i","l","e"," ","a","p","p","s">>,
        link |-> None, page |-> <<"h","t","t","p","s",":","/","/","g","a","m","m","a",".","i","n","v","a","l","i","d","/","c","a","r","e","e","r","s","/">>,
        anchor |-> 0],
       [source |-> "linkedin", title |-> <<"S","o","f","t","w","a","r","e"," ","E","n","g","i","n","e","e","r">>,
        company |-> <<"D","e","l","t","a">>, location |-> <<"R","e","m","o","t","e">>, description |-> None,
        link |-> <<"h","t","t","p","s",":","/","/","l",".","i","n","v","a","l","i","d","/","j","o","b","s","/","v","i","e","w","/","7">>, page |-> None,
        anchor |-> 0],
       [source |-> "link", title |-> <<" ","P","y","t","h","o","n"," ","D","e","v","e","l","o","p","e","r"," ","I","n","t","e","r","n"," ">>,
        company |-> <<"G","a","m","m","a">>, location |-> None, description |-> None,
        link |-> <<"o","p","e","n","i","n","g","s","/",".","/","p","y","t","h","o","n","#","a","p","p","l","y">>, page |-> <<"h","t","t","p","s",":","/","/","g","a","m","m","a",".","i","n","v","a","l","i","d","/","c","a","r","e","e","r","s","/">>,
        anchor |-> 0],
       [source |-> "card", title |-> <<"S","a","l","e","s"," ","O","f","f","i","c","e","r">>,
        company |-> <<"B","e","t","a">>, location |-> None, description |-> <<"s","a","l","e","s">>,
        link |-> None, page |-> <<"h","t","t","p",":","/","/","b","e","t","a",".","i","n","v","a","l","i","d","/">>,
        anchor |-> 15],
       [source |-> "card", title |-> <<"R","e","a","c","t"," ","D","e","v","e","l","o","p","e","r">>,
        company |-> <<"G","a","m","m","a">>, location |-> None, description |-> None,
        link |-> None, page |-> <<"h","t","t","p","s",":","/","/","g","a","m","m","a",".","i","n","v","a","l","i","d","/","c","a","r","e","e","r","s","/">>,
        anchor |-> 16],
       [source |-> "link", title |-> <<"A","p","p","l","y">>,
        company |-> <<"G","a","m","m","a">>, location |-> None, description |-> None,
        link |-> <<"/","a","p","p","l","y">>, page |-> <<"h","t","t","p","s",":","/","/","g","a","m","m","a",".","i","n","v","a","l","i","d","/","c","a","r","e","e","r","s","/">>,
        anchor |-> 0],
       [source |-> "linkedin", title |-> <<"W","e","b"," ","D","e","v","e","l","o","p","e","r">>,
        company |-> None, location |-> <<"L","a","h","o","r","e">>, description |-> None,
        link |-> <<"h","t","t","p","s",":","/","/","l",".","i","n","v","a","l","i","d","/","j","o","b","s","/","v","i","e","w","/","1","2">>, page |-> None,
        anchor |-> 0],
       [source |-> "link", title |-> <<"A","p","p","l","y">>,
        company |-> <<"A","C","M","E">>, location |-> None, description |-> None,
        link |-> <<"u","2">>, page |-> <<"h","t","t","p",":","/","/","a","c","m","e",".","i","n","v","a","l","i","d","/","c","a","r","e","e","r","s">>,
        anchor |-> 0],
       [source |-> "link", title |-> <<"S","e","n","i","o","r"," ","R","e","a","c","t"," ","D","e","v","e","l","o","p","e","r">>,
        company |-> <<"G","a","m","m","a">>, location |-> None, description |-> None,
        link |-> <<"/","j","o","b","s","/",".",".","/","a","p","p","l","y","/","u","5","?","r","e","f","=","s","i","t","e">>, page |-> <<"h","t","t","p","s",":","/","/","g","a","m","m","a",".","i","n","v","a","l","i","d","/","c","a","r","e","e","r","s","/">>,
        anchor |-> 0],
       [source |-> "link", title |-> <<"D","e","t","a","i","l","s">>,
        company |-> <<"B","e","t","a">>, location |-> None, description |-> None,
        link |-> <<"u","9">>, page |-> <<"h","t","t","p",":","/","/","b","e","t","a",".","i","n","v","a","l","i","d","/">>,
        anchor |-> 0],
       [source |-> "link", title |-> <<"A","p","p","l","y"," ","n","o","w">>,
        company |-> <<"G","a","m","m","a">>, location |-> None, description |-> None,
        link |-> <<"h","t","t","p",":","/","/","g","a","m","m","a",".","i","n","v","a","l","i","d","/","j","o","b","s","/","r">>, page |-> <<"h","t","t","p","s",":","/","/","g","a","m","m","a",".","i","n","v","a","l","i","d","/","c","a","r","e","e","r","s","/">>,
        anchor |-> 0] >>

SourceOf(e) == Elements[e].source
AnchorOf(e) == Elements[e].anchor

\* the job a scraper builds from an element, NoJob when it builds none
JobOf(e) ==
    IF e.source = "linkedin" THEN linkedInJob(e)
    ELSE IF e.source = "link"
    THEN companyLinkJob([name |-> e.company, careerPage |-> e.page], e)
    ELSE companyCardJob([name |-> e.company, careerPage |-> e.page],
                        [e EXCEPT !.link = IF e.anchor = 0 THEN None
                                            ELSE Elements[e.anchor].link])

Jobs == [i \in 1..Len(Elements) |-> JobOf(Elements[i])] \o << >>

\* what runJoblyst's loop computes from a job alone, for each job of Jobs:
\* its id, the verdict of each filter, and the score for each cosine
JobFacts(job) ==
    [id         |-> job.id,
     role       |-> roleFilter(job),
     location   |-> locationFilter(job),
     experience |-> experienceFilter(job),
     skills     |-> skillsExclusionFilter(job),
     score      |-> [c \in CosineValues |->
                        scoreJobHybrid(job, c, cvSkills)] @@ << >>]

FactsOf(jobs) ==
    [i \in 1..Len(jobs) |->
        IF jobs[i] = NoJob THEN NoJob ELSE JobFacts(jobs[i])] \o << >>

Facts == FactsOf(Jobs)

\* the id of a job of a list
IdOf(jobs, i) == jobs[i].id

\* "if job and job["id"] not in [j["id"] for j in jobs]: jobs.append(job)",
\* for the elements of a list in turn, jobs and elements as indices
RECURSIVE Appended(_, _)
Appended(jobs, elements) ==
    IF Len(elements) = 0 THEN jobs
    ELSE LET e == Head(elements)
         IN  IF /\ Jobs[e] # NoJob
                /\ \A n \in 1..Len(jobs) : IdOf(Jobs, jobs[n]) # IdOf(Jobs, e)
             THEN Appended(Append(jobs, e), Tail(elements))
             ELSE Appended(jobs, Tail(elements))

\* scrapeLinkedIn() when the searches return these cards, in this order
scrapeLinkedIn(cards) == Appended(<< >>, cards)

\* soup.select("a[href*='job'], ...") of a page: its links in document
\* order, the link inside a card among them (companyLinkJob passes over
\* those whose href holds no mark)
RECURSIVE jobLinks(_)
jobLinks(page) ==
    IF Len(page) = 0 THEN << >>
    ELSE (IF SourceOf(Head(page)) = "link" THEN <<Head(page)>>
          ELSE IF AnchorOf(Head(page)) # 0 THEN <<AnchorOf(Head(page))>>
          ELSE << >>) \o jobLinks(Tail(page))

\* soup.select("div[class*='job'], ...") of a page: its cards in document
\* order
RECURSIVE jobCards(_)
jobCards(page) ==
    IF Len(page) = 0 THEN << >>
    ELSE (IF SourceOf(Head(page)) = "card" THEN <<Head(page)>> ELSE << >>)
            \o jobCards(Tail(page))

\* scrapeCompanyPages, for the page of one company: every link of the page,
\* then every card
ScrapedPage(jobs, page) == Appended(Appended(jobs, jobLinks(page)), jobCards(page))

RECURSIVE ScrapedPages(_, _)
ScrapedPages(jobs, pages) ==
    IF Len(pages) = 0 THEN jobs
    ELSE ScrapedPages(ScrapedPage(jobs, Head(pages)), Tail(pages))

\* scrapeCompanyPages() when the pages of the companies hold these links and
\* cards, a page being its links and cards outside a card in document order
scrapeCompanyPages(pages) == ScrapedPages(<< >>, pages)

\* the elements the sites return during the runs of Spec: a card the
\* threshold decides, the same job on LinkedIn, a card a filter rejects, a
\* card of another id, a card scrapeCompanyPages passes over, a card whose
\* title is its link
Sources == {1, 2, 5, 7, 9}

SourcesOf(kinds) == {i \in Sources : SourceOf(i) \in kinds}

\* the elements of a run: at most MaxJobs
ElementLists(from) == UNION {[1..n -> from] : n \in 0..MaxJobs}

\* the pages of a run: each holds elements of one company
PageLists(from) ==
    UNION {[1..n -> {page \in ElementLists(from) :
                        \A i, j \in 1..Len(page) :
                            /\ Elements[page[i]].company = Elements[page[j]].company
                            /\ Elements[page[i]].page = Elements[page[j]].page}] :
            n \in 0..MaxJobs}

RECURSIVE Size(_)
Size(pages) == IF Len(pages) = 0 THEN 0 ELSE Len(Head(pages)) + Size(Tail(pages))

\* allJobs: scrapeLinkedIn()'s list followed by scrapeCompanyPages()'s list
Collected ==
    { scrapeLinkedIn(cards) \o scrapeCompanyPages(pages) :
        <<cards, pages>> \in
            { p \in ElementLists(SourcesOf({"linkedin"}))
                        \X PageLists(SourcesOf({"link", "card"})) :
                Len(p[1]) + Size(p[2]) <= MaxJobs } }

(***************************************************************************)
(* sendToDiscord and one iteration of runJoblyst's loop                    *)
(***************************************************************************)
\* a variant that posts a job without recording it
sendToDiscord_postsUnmarked(id, h, f, t, saveOutcome) ==
    IF is_sent(h, id)
    THEN [calls |-> <<"sendToDiscord", "is_sent">>, raised |-> FALSE,
          history |-> h, file |-> f, saved |-> "none", posting |-> FALSE]
    ELSE [calls |-> <<"sendToDiscord", "is_sent", "post">>, raised |-> FALSE,
          history |-> h, file |-> f, saved |-> "none", posting |-> TRUE]

\* sendToDiscord(job, score) for the job of this id at time t, up to its
\* return or to its call of requests.post: what it calls, whether it raises,
\* the history and the file then, and whether the post is under way
sendToDiscord(id, h, f, t, saveOutcome) ==
    IF is_sent(h, id)
    THEN [calls |-> <<"sendToDiscord", "is_sent">>, raised |-> FALSE,
          history |-> h, file |-> f, saved |-> "none", posting |-> FALSE]
    ELSE LET m == mark_as_sent(h, f, id, t, saveOutcome)
         IN  IF m.raised
             THEN [calls |-> <<"sendToDiscord", "is_sent", "mark_as_sent">>,
                   raised |-> TRUE, history |-> m.history, file |-> m.file,
                   saved |-> m.saved, posting |-> FALSE]
             ELSE [calls |-> <<"sendToDiscord", "is_sent", "mark_as_sent", "post">>,
                   raised |-> FALSE, history |-> m.history, file |-> m.file,
                   saved |-> m.saved, posting |-> TRUE]

\* how requests.post ends: it returns, or it raises and sendToDiscord logs
\* the error
PostOutcomes == {"ok", "failed"}

\* a variant with a strict threshold
Matches_strict(s) == s > minScore

\* "if score >= minScore"
Matches(s) == s >= minScore

\* the result of a loop iteration that ends before the scorer
Skipped(calls, h, f) ==
    [calls |-> calls, raised |-> FALSE, history |-> h, file |-> f, score |-> -1,
     saved |-> "none", posting |-> FALSE]

\* the body of "for job in allJobs" for a job of these facts, up to its end
\* or to sendToDiscord's call of requests.post
LoopBody(job, h, f, t, encodeFails, cosine, saveOutcome) ==
    IF is_sent(h, job.id) THEN Skipped(<<"is_sent">>, h, f)
    ELSE IF ~job.role THEN Skipped(<<"is_sent", "roleFilter">>, h, f)
    ELSE IF ~job.location
         THEN Skipped(<<"is_sent", "roleFilter", "locationFilter">>, h, f)
    ELSE IF ~job.experience
         THEN Skipped(<<"is_sent", "roleFilter", "locationFilter",
                        "experienceFilter">>, h, f)
    ELSE IF ~job.skills
         THEN Skipped(<<"is_sent", "roleFilter", "locationFilter",
                        "experienceFilter", "skillsExclusionFilter">>, h, f)
    ELSE LET before == <<"is_sent", "roleFilter", "locationFilter",
                         "experienceFilter", "skillsExclusionFilter",
                         "scoreJobHybrid">>
         IN  IF encodeFails
             THEN [calls |-> before, raised |-> TRUE, history |-> h, file |-> f,
                   score |-> -1, saved |-> "none", posting |-> FALSE]
             ELSE LET s == job.score[cosine]
                  IN  IF Matches(s)
                      THEN LET d == sendToDiscord(job.id, h, f, t, saveOutcome)
                           IN  [calls |-> before \o d.calls, raised |-> d.raised,
                                history |-> d.history, file |-> d.file,
                                score |-> s, saved |-> d.saved,
                                posting |-> d.posting]
                      ELSE [calls |-> before, raised |-> FALSE, history |-> h,
                            file |-> f, score |-> s, saved |-> "none",
                            posting |-> FALSE]

\* a variant without the skills-exclusion filter
Iteration_noSkillsFilter(j, h, f, t, encodeFails, cosine, saveOutcome) ==
    LoopBody([Facts[j] EXCEPT !.skills = TRUE], h, f, t, encodeFails, cosine,
             saveOutcome)

\* the body of "for job in allJobs" for the job Jobs[j]
Iteration(j, h, f, t, encodeFails, cosine, saveOutcome) ==
    LoopBody(Facts[j], h, f, t, encodeFails, cosine, saveOutcome)

(***************************************************************************)
(* State                                                                   *)
(***************************************************************************)
VARIABLES
    now,       \* the clock, in days
    file,      \* the durable history file
    proc,      \* "down", "idle", "collecting" (runJoblyst waits for the
               \* scrapers), "running", "posting" (sendToDiscord waits for
               \* requests.post), "empty", "completed", "raised"
    history,   \* jobHistory.history
    pending,   \* runJoblyst: the jobs of allJobs the loop has yet to visit,
               \* as indices of Jobs
    \* what the last step did, or the loop iteration it belongs to:
    loopJob,   \* the job a loop iteration visits (the job_id of a direct
               \* mark_as_sent call), as an index of Jobs, 0 when none
    calls,     \* what the loop iteration has called, in order
    score,     \* the score the loop iteration computed, -1 when none
    removed,   \* what cleanup_old_entries returned, -1 when not called
    saved,     \* the outcome of _save_history, "none" when not called
    delivery,  \* how the post ended, "none" when it has not
    evicted,   \* what the cleanup of the run in progress removed, and when
    \* what the posts have come to, over the processes:
    undelivered, \* the ids of the jobs whose last post failed, without
               \* those a cleanup has evicted since
    \* a function of the program called on its own:
    input,     \* the function and its arguments
    output     \* what it returned

vars == <<now, file, proc, history, pending, loopJob, calls, score, removed,
          saved, delivery, evicted, undelivered, input, output>>

\* no run is in progress
NoEviction == [at |-> 0, entries |-> << >>]

\* no function is called on its own
NoCall == [fn |-> "none"]

\* The clock starts at day retention_days, so that the cutoff of a cleanup is
\* never before day 0.
MaxTime == retention_days + Horizon

\* The files a process may find at start-up.  An entry of a well-formed file
\* was recorded by an earlier process, retention_days or retention_days - 1
\* days before the clock starts.
InitStamps == {0, 1}
InitFiles ==
    {Absent, Garbage, ObjectFile(<< >>), ArrayFile(<<Jobs[2].id>>)}
        \cup {ObjectFile([k \in {Jobs[2].id} |-> isoformat(t)]) : t \in InitStamps}

Init ==
    /\ now = retention_days
    /\ file \in InitFiles
    /\ proc = "down"
    /\ history = EmptyDict
    /\ pending = << >>
    /\ loopJob = 0
    /\ calls = << >>
    /\ score = -1
    /\ removed = -1
    /\ saved = "none"
    /\ delivery = "none"
    /\ evicted = NoEviction
    /\ undelivered = {}
    /\ input = NoCall
    /\ output = NoCall

\* a step that runs no loop iteration
NoIteration ==
    /\ loopJob' = 0
    /\ calls' = << >>
    /\ score' = -1
    /\ delivery' = "none"

\* Process start: main.py is loaded, JobHistory() reads the file
Start ==
    /\ proc = "down"
    /\ proc' = "idle"
    /\ history' = _load_history(file)
    /\ pending' = << >>
    /\ removed' = -1
    /\ saved' = "none"
    /\ NoIteration
    /\ evicted' = NoEviction
    /\ UNCHANGED undelivered
    /\ UNCHANGED <<now, file, input, output>>

\* runJoblyst up to the scrapers: cleanup_old_entries.  (get_stats only feeds
\* the log.)
Cleanup(saveOutcome) ==
    /\ proc \in {"idle", "empty", "completed"}
    /\ LET c == cleanup_old_entries(history, file, now, saveOutcome)
       IN  /\ saveOutcome = "ok" \/ c.saved # "none"
           /\ history' = c.history
           /\ file' = c.file
           /\ removed' = c.removed_count
           /\ saved' = c.saved
           /\ proc' = IF c.raised THEN "raised" ELSE "collecting"
    /\ pending' = << >>
    /\ NoIteration
    /\ evicted' = [at |-> now, entries |-> RemovedEntries(history, now)]
    /\ undelivered' = undelivered \ DOMAIN RemovedEntries(history, now)
    /\ UNCHANGED <<now, input, output>>

\* the scrapers have returned: allJobs, the return when it is empty
Collect(jobs) ==
    /\ proc = "collecting"
    /\ proc' = IF Len(jobs) = 0 THEN "empty" ELSE "running"
    /\ pending' = jobs
    /\ removed' = -1
    /\ saved' = "none"
    /\ NoIteration
    /\ UNCHANGED <<now, file, history, evicted, undelivered, input, output>>

\* the state after the part of an iteration that gave this result: an
\* exception ends the run
IterationDone(r) ==
    /\ history' = r.history
    /\ file' = r.file
    /\ calls' = r.calls
    /\ score' = r.score
    /\ saved' = r.saved
    /\ delivery' = "none"
    /\ proc' = IF r.raised THEN "raised"
               ELSE IF r.posting THEN "posting" ELSE "running"
    /\ pending' = IF r.raised THEN << >> ELSE Tail(pending)

\* one iteration of the loop, for the job at the head of pending, up to its
\* end or to sendToDiscord's call of requests.post
ProcessJob(encodeFails, cosine, saveOutcome) ==
    /\ proc = "running"
    /\ pending # << >>
    /\ loopJob' = Head(pending)
    /\ IterationDone(Iteration(Head(pending), history, file, now, encodeFails,
                               cosine, saveOutcome))
    /\ removed' = -1
    /\ UNCHANGED <<now, evicted, undelivered, input, output>>

\* requests.post has ended; sendToDiscord and the iteration end.  (The code
\* keeps no record of how the post ended but its log; undelivered does.)
PostDone(postOutcome) ==
    /\ proc = "posting"
    /\ proc' = "running"
    /\ delivery' = postOutcome
    /\ undelivered' = IF postOutcome = "failed"
                      THEN undelivered \cup {IdOf(Jobs, loopJob)}
                      ELSE undelivered \ {IdOf(Jobs, loopJob)}
    /\ UNCHANGED <<now, file, history, pending, loopJob, calls, score, removed,
                   saved, evicted, input, output>>

\* the loop is over: "JOBLYST RUN COMPLETED"
RunComplete ==
    /\ proc = "running"
    /\ pending = << >>
    /\ proc' = "completed"
    /\ removed' = -1
    /\ saved' = "none"
    /\ NoIteration
    /\ evicted' = NoEviction
    /\ UNCHANGED undelivered
    /\ UNCHANGED <<now, file, history, pending, input, output>>

\* the process ends and its memory is gone; the file stays
Exit ==
    /\ proc # "down"
    /\ proc' = "down"
    /\ history' = EmptyDict
    /\ pending' = << >>
    /\ removed' = -1
    /\ saved' = "none"
    /\ NoIteration
    /\ evicted' = NoEviction
    /\ UNCHANGED undelivered
    /\ UNCHANGED <<now, file, input, output>>

\* a day passes; an iteration that waits for its post is still the one in
\* progress
Tick ==
    /\ now < MaxTime
    /\ now' = now + 1
    /\ removed' = -1
    /\ IF proc = "posting"
       THEN UNCHANGED <<loopJob, calls, score, saved, delivery>>
       ELSE saved' = "none" /\ NoIteration
    /\ UNCHANGED <<file, proc, history, pending, evicted, undelivered, input, output>>

\* An input that an iteration does not read is fixed, so that each behaviour
\* of the code is one step of the model: the cosine when the scorer is not
\* reached or the encoding fails, the save outcome when nothing is sent.
\* (Cleanup fixes the save outcome when it saves nothing.)
InputsRead(fact, e, c, o) ==
    LET scoring == /\ ~is_sent(history, fact.id)
                   /\ fact.role /\ fact.location
                   /\ fact.experience /\ fact.skills
        sending == scoring /\ ~e /\ Matches(fact.score[c])
        c0      == CHOOSE x \in CosineValues : \A y \in CosineValues : x <= y
    IN  /\ scoring \/ ~e
        /\ (scoring /\ ~e) \/ c = c0
        /\ (sending /\ history.kind = "dict") \/ o = "ok"

ProcessJobInputs(e, c, o) == InputsRead(Facts[Head(pending)], e, c, o)

Next ==
    \/ Start
    \/ \E o \in SaveOutcomes : Cleanup(o)
    \/ \E jobs \in Collected : Collect(jobs)
    \/ /\ proc = "running" /\ pending # << >>
       /\ \E e \in BOOLEAN, c \in CosineValues, o \in SaveOutcomes :
             /\ ProcessJobInputs(e, c, o)
             /\ ProcessJob(e, c, o)
    \/ \E p \in PostOutcomes : PostDone(p)
    \/ RunComplete
    \/ Exit
    \/ Tick

Spec == Init /\ [][Next]_vars

(***************************************************************************)
(* The loop iteration on every job of Jobs: a run that collected one job,  *)
(* taken when the scrapers return (the state Start, Cleanup and Collect    *)
(* lead to from a start-up file)                                           *)
(***************************************************************************)
InitJob ==
    \E f \in InitFiles, j \in {i \in 1..Len(Jobs) : Jobs[i] # NoJob} :
        LET h == _load_history(f)
            c == cleanup_old_entries(h, f, retention_days, "ok")
        IN  /\ ~c.raised
            /\ now = retention_days
            /\ file = c.file
            /\ proc = "running"
            /\ history = c.history
            /\ pending = <<j>>
            /\ loopJob = 0
            /\ calls = << >>
            /\ score = -1
            /\ removed = -1
            /\ saved = "none"
            /\ delivery = "none"
            /\ evicted = [at |-> retention_days,
                          entries |-> RemovedEntries(h, retention_days)]
            /\ undelivered = {}
            /\ input = NoCall
            /\ output = NoCall

NextJob ==
    \/ /\ proc = "running" /\ pending # << >>
       /\ \E e \in BOOLEAN, c \in CosineValues, o \in SaveOutcomes :
             /\ ProcessJobInputs(e, c, o)
             /\ ProcessJob(e, c, o)
    \/ \E p \in PostOutcomes : PostDone(p)
    \/ RunComplete
    \/ Tick

SpecJob == InitJob /\ [][NextJob]_vars

(***************************************************************************)
(* The JobHistory object alone, its methods called by any client in any    *)
(* order (is_sent changes nothing and is read off the state)               *)
(***************************************************************************)
\* the job ids a client marks
StoreJobs == {2, 7}

StoreMark(j, saveOutcome) ==
    /\ proc = "idle"
    /\ LET m == mark_as_sent(history, file, IdOf(Jobs, j), now, saveOutcome)
       IN  /\ saveOutcome = "ok" \/ m.saved # "none"
           /\ history' = m.history
           /\ file' = m.file
           /\ saved' = m.saved
           /\ proc' = IF m.raised THEN "raised" ELSE "idle"
    /\ loopJob' = j
    /\ calls' = <<"mark_as_sent">>
    /\ score' = -1
    /\ removed' = -1
    /\ delivery' = "none"
    /\ UNCHANGED <<now, pending, evicted, undelivered, input, output>>

StoreCleanup(saveOutcome) ==
    /\ proc = "idle"
    /\ LET c == cleanup_old_entries(history, file, now, saveOutcome)
       IN  /\ saveOutcome = "ok" \/ c.saved # "none"
           /\ history' = c.history
           /\ file' = c.file
           /\ removed' = c.removed_count
           /\ saved' = c.saved
           /\ proc' = IF c.raised THEN "raised" ELSE "idle"
    /\ NoIteration
    /\ UNCHANGED <<now, pending, evicted, undelivered, input, output>>

NextStore ==
    \/ Start
    \/ \E j \in StoreJobs, o \in SaveOutcomes : StoreMark(j, o)
    \/ \E o \in SaveOutcomes : StoreCleanup(o)
    \/ Exit
    \/ Tick

SpecStore == Init /\ [][NextStore]_vars

(***************************************************************************)
(* The functions of main.py called on their own, on arguments drawn from   *)
(* the sets below                                                          *)
(***************************************************************************)
RawTitles ==
    { None, << >>, <<" "," ">>, <<"<","b",">","<","/","b",">">>, <<"W","e","b"," "," ","D","e","v","e","l","o","p","e","r">>, <<" ","<","b",">","Q","A","<","/","b",">","L","e","a","d"," ">>,
      <<"S","e","n","i","o","r"," ","P","r","i","n","c","i","p","a","l"," ","S","t","a","f","f"," ","S","o","f","t","w","a","r","e"," ","E","n","g","i","n","e","e","r"," ","I","I"," ","P","a","y","m","e","n","t","s">>,
      <<"S","E","N","I","O","R"," ","p","r","i","n","c","i","p","a","l"," ","s","t","a","f","f"," ","s","o","f","t","w","a","r","e"," ","e","n","g","i","n","e","e","r"," ","i","i"," ","P","l","a","t","f","o","r","m">>,
      <<"">>, <<"","É","c","o","l","e"," ","D","e","v"," ">> }

RawCompanies ==
    { None, << >>, <<" ">>, <<"<","b","r",">">>, <<"A","C","M","E"," ","L","a","b","s">>,
      <<"I","n","t","e","r","n","a","t","i","o","n","a","l"," ","B","u","s","i","n","e","s","s"," ","M","a","c","h","i","n","e","s"," ","C","o","r","p">>,
      <<"i","n","t","e","r","n","a","t","i","o","n","a","l"," ","b","u","s","i","n","e","s","s"," ","m","a","c","h","i","n","e","s"," ","P","a","k","i","s","t","a","n">>, <<"Ü","B","E","R"," ","G","m","b","H">> }

RawLocations == { None, <<"L","a","h","o","r","e">>, <<" ","N","e","w"," "," ","Y","o","r","k"," ">> }

RawDescriptions == { None, <<"U","s","e","s"," ","<","b",">","R","e","a","c","t","<","/","b",">">>, <<"A"," "," ","B">> }

RawLinks == { <<"h","t","t","p","s",":","/","/","X",".","i","o","/","J","o","b","?","i","d","=","1">>, <<" ","H","T","T","P",":","/","/","Y"," ">> }

NormalizeInputs ==
    [fn : {"normalizeJob"}, title : RawTitles, company : RawCompanies,
     location : RawLocations, description : RawDescriptions,
     applyLink : RawLinks]

\* titles and descriptions as normalizeJob returns them
ExperienceTitles ==
    { <<"d","e","v","e","l","o","p","e","r">>, <<"s","e","n","i","o","r"," ","d","e","v","e","l","o","p","e","r">>, <<"j","u","n","i","o","r"," ","d","e","v","e","l","o","p","e","r">>, <<"t","e","a","m"," ","l","e","a","d">>,
      <<"p","r","o","g","r","a","m","m","e","r"," ","s","r">>, <<"s","o","f","t","w","a","r","e"," ","e","n","g","i","n","e","e","r">>, <<"s","a","l","e","s"," ","o","f","f","i","c","e","r">>,
      <<"m","a","r","k","e","t","i","n","g"," ","i","n","t","e","r","n">>, <<"a","c","c","o","u","n","t","a","n","t">> }

ExperienceDescriptions ==
    { << >>, <<"f","r","e","s","h"," ","g","r","a","d","u","a","t","e","s"," ","w","e","l","c","o","m","e">>, <<"f","o","r"," ","s","e","n","i","o","r"," ","a","n","d"," ","f","r","e","s","h"," ","e","n","g","i","n","e","e","r","s">>,
      <<"5","+"," ","y","e","a","r","s"," ","o","f"," ","e","x","p","e","r","i","e","n","c","e">>, <<"e","n","t","r","y"," ","l","e","v","e","l",","," ","3"," ","y","e","a","r","s"," ","p","r","e","f","e","r","r","e","d">>,
      <<"0","-","1"," ","y","e","a","r","s">>, <<"l","e","a","d","e","r","s","h","i","p"," ","s","k","i","l","l","s">>, <<"o","f","f","i","c","e"," ","w","o","r","k">> }

ExperienceInputs ==
    [fn : {"experienceFilter"},
     job : [title : ExperienceTitles, description : ExperienceDescriptions]]

\* jobs and profiles for the scorer
ScoreTitles ==
    { <<"s","o","f","t","w","a","r","e"," ","e","n","g","i","n","e","e","r">>, <<"r","e","a","c","t"," ","d","e","v","e","l","o","p","e","r">>, <<"m","l"," ","e","n","g","i","n","e","e","r">>,
      <<"a","c","c","o","u","n","t","a","n","t">>, <<"j","u","n","i","o","r"," ","p","y","t","h","o","n"," ","d","e","v","e","l","o","p","e","r">>, <<"j","u","n","i","o","r"," ","w","e","b"," ","d","e","v","e","l","o","p","e","r">> }

ScoreDescriptions ==
    { << >>, <<"p","y","t","h","o","n"," ","a","n","d"," ","r","e","a","c","t">>, <<"n","u","m","p","y">>, <<"f","r","e","s","h"," ","g","r","a","d","u","a","t","e","s">> }

Profiles == { << >>, << <<"p","y","t","h","o","n">> >>, cvSkills }

ScoreInputs ==
    [fn : {"scoreJobHybrid"},
     job : [title : ScoreTitles, description : ScoreDescriptions],
     cosine : ScoreCosines, skills : Profiles]

\* the pipeline is not running
NoPipeline ==
    /\ now = retention_days
    /\ file = Absent
    /\ proc = "down"
    /\ history = EmptyDict
    /\ pending = << >>
    /\ loopJob = 0
    /\ calls = << >>
    /\ score = -1
    /\ removed = -1
    /\ saved = "none"
    /\ delivery = "none"
    /\ evicted = NoEviction
    /\ undelivered = {}

InitCalls ==
    /\ NoPipeline
    /\ input \in NormalizeInputs \cup ExperienceInputs \cup ScoreInputs
    /\ output = NoCall

\* what a call returned
Returned(fn, value) == [fn |-> fn, value |-> value]

CallNormalizeJob ==
    /\ input.fn = "normalizeJob"
    /\ output = NoCall
    /\ output' = Returned("normalizeJob",
                          normalizeJob(input.title, input.company, input.location,
                                       input.description, input.applyLink))
    /\ UNCHANGED <<now, file, proc, history, pending, loopJob, calls, score,
                   removed, saved, delivery, evicted, undelivered, input>>

CallExperienceFilter ==
    /\ input.fn = "experienceFilter"
    /\ output = NoCall
    /\ output' = Returned("experienceFilter", experienceFilter(input.job))
    /\ UNCHANGED <<now, file, proc, history, pending, loopJob, calls, score,
                   removed, saved, delivery, evicted, undelivered, input>>

CallScoreJobHybrid ==
    /\ input.fn = "scoreJobHybrid"
    /\ output = NoCall
    /\ output' = Returned("scoreJobHybrid",
                          scoreJobHybrid(input.job, input.cosine, input.skills))
    /\ UNCHANGED <<now, file, proc, history, pending, loopJob, calls, score,
                   removed, saved, delivery, evicted, undelivered, input>>

NextCalls ==
    \/ CallNormalizeJob
    \/ CallExperienceFilter
    \/ CallScoreJobHybrid

SpecCalls == InitCalls /\ [][NextCalls]_vars

(***************************************************************************)
(* Properties                                                              *)
(***************************************************************************)
Range(s) == {s[i] : i \in 1..Len(s)}


\* the step is runJoblyst's start, with its cleanup_old_entries call returning
CleanupStep == removed' >= 0 /\ proc' # "raised"

\* the step is a loop iteration, up to its end or to the call of the post
IterationStep == proc = "running" /\ pending # << >> /\ calls' # << >>

\* the step is the end of a post
PostStep == proc = "posting" /\ proc' = "running"

\* the step is a mark_as_sent call that returned
MarkStep ==
    /\ proc # "posting"
    /\ calls' # << >> /\ "mark_as_sent" \in Range(calls') /\ proc' # "raised"

\* the id of the job of index j
JobId(j) == IdOf(Jobs, j)

\* C1: a fingerprint marked sent at time t stays sent, and its job is not
\* handed to the notifier, up to and including time t + retention_days, over
\* the runs of a process.
C1_SentStaysSentInWindow ==
    [][(proc # "down" /\ proc' # "down" /\ history.kind = "dict") =>
          /\ \A id \in DOMAIN history.entries :
                now' <= StampDay(history.entries[id]) + retention_days
                    => history'.kind = "dict" /\ id \in DOMAIN history'.entries
          /\ (IterationStep /\ JobId(Head(pending)) \in DOMAIN history.entries)
                => "sendToDiscord" \notin Range(calls')]_vars

\* C2: cleanup_old_entries removes exactly the entries strictly older than
\* now - retention_days, keeps every other entry (the one exactly at the
\* cutoff included) with its timestamp, and returns the number removed.
C2_CleanupRemovesStrictlyOlder ==
    [][(CleanupStep /\ history.kind = "dict") =>
          /\ history'.kind = "dict"
          /\ DOMAIN history'.entries =
                {k \in DOMAIN history.entries :
                    StampDay(history.entries[k]) >= now - retention_days}
          /\ \A k \in DOMAIN history'.entries :
                history'.entries[k] = history.entries[k]
          /\ removed' = Cardinality(DOMAIN history.entries)
                            - Cardinality(DOMAIN history'.entries)]_vars

\* C3: a cleanup that follows a cleanup with no mark_as_sent in between (the
\* run before collected nothing), the clock not past the expiry of any entry,
\* returns 0, leaves the history as it was and writes nothing.
C3_SecondCleanupRemovesNothing ==
    [][(/\ proc = "empty"
        /\ CleanupStep
        /\ \A k \in DOMAIN history.entries :
              now <= StampDay(history.entries[k]) + retention_days) =>
          /\ removed' = 0
          /\ history' = history
          /\ file' = file
          /\ saved' = "none"]_vars

\* C4: mark_as_sent(f) maps f to the current time (an earlier entry is
\* overwritten), leaves every other entry as it was, and, when the write did
\* not fail, the file holds the history: a store loaded from it reports every
\* fingerprint of the history as sent.
C4_MarkRecordsAndPersists ==
    [][MarkStep =>
          /\ history'.kind = "dict"
          /\ DOMAIN history'.entries = DOMAIN history.entries \cup {JobId(loopJob')}
          /\ history'.entries[JobId(loopJob')] = <<now \div 10, now % 10>>
          /\ \A k \in DOMAIN history.entries \ {JobId(loopJob')} :
                history'.entries[k] = history.entries[k]
          /\ saved' = "ok" =>
                /\ file' = [kind |-> "object", entries |-> history'.entries]
                /\ _load_history(file') = history'
                /\ \A g \in DOMAIN history'.entries :
                      is_sent(_load_history(file'), g)]_vars

\* a fingerprint already in the history was marked again, with another one
\* in the history, and the write succeeded
C4_Witness ==
    /\ calls = <<"mark_as_sent">>
    /\ saved = "ok"
    /\ proc = "idle"
    /\ history.kind = "dict"
    /\ Cardinality(DOMAIN history.entries) = 2
    /\ history.entries[JobId(loopJob)] = <<now \div 10, now % 10>>
    /\ \E k \in DOMAIN history.entries : StampDay(history.entries[k]) < now
    /\ file = [kind |-> "object", entries |-> history.entries]
    /\ now > retention_days

\* C5: a process that finds the file absent, unparseable or of another shape
\* than the object it writes starts with an empty store.
C5_BadFileStartsEmpty ==
    (proc = "idle" /\ calls = << >> /\ removed = -1 /\ file.kind # "object")
        => history = [kind |-> "dict", entries |-> << >>]

\* C6 as stated: a failed write leaves the file as it was and does not raise.
C6_FailedWriteLeavesFile ==
    [][((CleanupStep \/ IterationStep)
            /\ saved' \in {"open_fails", "write_fails"}) =>
          /\ proc' # "raised"
          /\ file' = file]_vars

\* C6 amended: a failed write does not raise and leaves the file as it was
\* when it could not be opened, truncated (a later load finds no entry) when
\* the dump failed; the in-memory update stays and the run goes on (to the
\* scrapers after a cleanup, to the post after a mark_as_sent).
C6_FailedWriteIsSwallowed ==
    [][((CleanupStep \/ IterationStep)
            /\ saved' \in {"open_fails", "write_fails"}) =>
          /\ proc' \in {"collecting", "posting"}
          /\ saved' = "open_fails" => file' = file
          /\ saved' = "write_fails" =>
                /\ file' = [kind |-> "garbage"]
                /\ _load_history(file') = [kind |-> "dict", entries |-> << >>]
          /\ history'.kind = "dict"
          /\ IterationStep =>
                /\ JobId(loopJob') \in DOMAIN history'.entries
                /\ pending' = Tail(pending)
                /\ proc' = "posting"
                /\ "post" = calls'[Len(calls')]
          /\ CleanupStep =>
                /\ proc' = "collecting"
                /\ removed' >= 1
                /\ Cardinality(DOMAIN history'.entries)
                      = Cardinality(DOMAIN history.entries) - removed'
                /\ DOMAIN history'.entries \subseteq DOMAIN history.entries]_vars

\* the dump of a mark_as_sent failed on a file that held an entry: the file
\* is truncated, the history holds the old and the new entry, the run goes on
C6_Witness ==
    /\ saved = "write_fails"
    /\ proc = "running"
    /\ "mark_as_sent" \in Range(calls)
    /\ file = [kind |-> "garbage"]
    /\ history.kind = "dict"
    /\ JobId(loopJob) \in DOMAIN history.entries
    /\ Cardinality(DOMAIN history.entries) = 2
    /\ delivery = "ok"

\* C7: while a process is up, an entry leaves the history only in a
\* cleanup_old_entries call; an entry older than the retention window stays
\* until then, and the job of an entry in the history (stale or not) is
\* skipped at the is_sent check.
C7_OnlyCleanupEvicts ==
    [][(proc # "down" /\ proc' # "down" /\ history.kind = "dict") =>
          /\ (\E k \in DOMAIN history.entries :
                  history'.kind # "dict" \/ k \notin DOMAIN history'.entries)
                => (CleanupStep /\ removed' >= 1)
          /\ (IterationStep /\ JobId(Head(pending)) \in DOMAIN history.entries)
                => /\ calls' = <<"is_sent">>
                   /\ history' = history
                   /\ file' = file]_vars

\* a job whose entry is older than the retention window was skipped at the
\* is_sent check, next to a fresh entry marked during the same run
C7_Witness ==
    /\ calls = <<"is_sent">>
    /\ loopJob # 0
    /\ history.kind = "dict"
    /\ JobId(loopJob) \in DOMAIN history.entries
    /\ StampDay(history.entries[JobId(loopJob)]) + retention_days < now
    /\ \E k \in DOMAIN history.entries : StampDay(history.entries[k]) = now

\* what an iteration calls up to its first rejection, for a job of these
\* facts (sent: its id is in the history)
ExpectedCalls(fact, sent) ==
    IF sent THEN <<"is_sent">>
    ELSE IF ~fact.role THEN <<"is_sent", "roleFilter">>
    ELSE IF ~fact.location THEN <<"is_sent", "roleFilter", "locationFilter">>
    ELSE IF ~fact.experience
         THEN <<"is_sent", "roleFilter", "locationFilter", "experienceFilter">>
    ELSE IF ~fact.skills
         THEN <<"is_sent", "roleFilter", "locationFilter", "experienceFilter",
                "skillsExclusionFilter">>
    ELSE <<"is_sent", "roleFilter", "locationFilter", "experienceFilter",
           "skillsExclusionFilter", "scoreJobHybrid">>

FiltersInOrder(fact, sent) ==
    LET expected == ExpectedCalls(fact, sent)
        accepted == ~sent /\ fact.role /\ fact.location /\ fact.experience
                        /\ fact.skills
    IN  /\ Len(calls') >= Len(expected)
        /\ SubSeq(calls', 1, Len(expected)) = expected
        /\ ("scoreJobHybrid" \in Range(calls')) <=> accepted
        /\ ~accepted => (calls' = expected /\ score' = -1)

\* C8: an iteration asks is_sent, then the role, location, experience and
\* skills-exclusion filters in that order, stops at the first rejection, and
\* calls the scorer only for a job that is not in the history and that all
\* four filters accepted.
C8_FiltersInOrder ==
    [][IterationStep =>
          FiltersInOrder(Facts[Head(pending)],
                         history.kind = "dict"
                            /\ JobId(Head(pending)) \in DOMAIN history.entries)]_vars

\* a job that the role, location and experience filters accepted was
\* rejected by the skills-exclusion filter, and the scorer was not called
C8_Witness ==
    /\ loopJob # 0
    /\ calls = <<"is_sent", "roleFilter", "locationFilter", "experienceFilter",
                 "skillsExclusionFilter">>
    /\ score = -1
    /\ proc = "running"

Notified(fact) ==
    /\ (score' >= minScore) =>
          /\ "sendToDiscord" \in Range(calls')
          /\ fact.id \in DOMAIN history'.entries
    /\ (score' < minScore) =>
          /\ "sendToDiscord" \notin Range(calls')
          /\ history' = history
          /\ file' = file
    /\ ("scoreJobHybrid" \in Range(calls')) =>
          \E c \in CosineValues : score' = fact.score[c]

\* C9: a job that reached the scorer is passed to sendToDiscord, and its
\* fingerprint recorded, exactly when its score is at least minScore; a job
\* that scored less or was filtered out leaves the history and the file as
\* they were.
C9_ThresholdGatesNotification ==
    [][(IterationStep /\ proc' # "raised") => Notified(Facts[Head(pending)])]_vars

\* a job that scored exactly minScore was notified and recorded
C9_Witness ==
    /\ score = minScore
    /\ loopJob # 0
    /\ "sendToDiscord" \in Range(calls)
    /\ "mark_as_sent" \in Range(calls)
    /\ history.kind = "dict"
    /\ JobId(loopJob) \in DOMAIN history.entries

\* C10: when the scorer fails (the embedding model raises), the job is
\* skipped and the run goes on with the next job.
C10_ScoringFailureSkipsJob ==
    (calls # << >> /\ calls[Len(calls)] = "scoreJobHybrid" /\ score = -1)
        => proc = "running"

\* a text of spaces only
Blank(text) == text # None /\ text # << >> /\ \A i \in 1..Len(text) : text[i] = " "

\* C11: normalizeJob returns null when the title or the company is empty
\* after trimming (whitespace only, markup only), and never returns a job
\* whose title or company is the empty text.
C11_EmptyTitleOrCompanyIsNull ==
    output.fn = "normalizeJob" =>
        /\ (Blank(input.title) \/ Blank(input.company)) => output.value = NoJob
        /\ output.value # NoJob =>
              (output.value.title # << >> /\ output.value.company # << >>)

\* a text with no upper-case letter and no run of two whitespace characters
LowerCollapsed(text) ==
    /\ \A i \in 1..Len(text) : text[i] \notin Range(UpperCase)
    /\ \A i \in 1..(Len(text) - 1) :
          ~(text[i] \in {" ", "\t", "\n", "\r"} /\ text[i + 1] \in {" ", "\t", "\n", "\r"})

\* C12: the title, company, location and description of a job normalizeJob
\* returns are lower-cased with whitespace runs collapsed to one space, and
\* applyLink is the argument unmodified.
C12_FieldsLowerCollapsed ==
    (output.fn = "normalizeJob" /\ output.value # NoJob) =>
        /\ LowerCollapsed(output.value.title)
        /\ LowerCollapsed(output.value.company)
        /\ LowerCollapsed(output.value.location)
        /\ LowerCollapsed(output.value.description)
        /\ output.value.applyLink = input.applyLink

\* the first n characters of a text, lower-cased
LowerPrefix(text, n) ==
    [i \in 1..(IF Len(text) < n THEN Len(text) ELSE n) |-> LowerChar(text[i])]

\* C13: the fingerprint of a job is the first 30 characters of its lower-cased
\* company, "-", the first 40 characters of its lower-cased title; the same
\* title and company give the same fingerprint whatever the location, the
\* description and the link.
C13_Fingerprint ==
    (output.fn = "normalizeJob" /\ output.value # NoJob) =>
        /\ output.value.id = LowerPrefix(output.value.company, 30) \o <<"-">>
                                \o LowerPrefix(output.value.title, 40)
        /\ \A l \in RawLocations, d \in RawDescriptions, a \in RawLinks :
              normalizeJob(input.title, input.company, l, d, a).id
                  = output.value.id

\* a title of more than 40 characters and a company of more than 30 were cut,
\* and a posting with another title and company has the same fingerprint
C13_Witness ==
    /\ output.fn = "normalizeJob"
    /\ output.value # NoJob
    /\ Len(output.value.title) > 40
    /\ Len(output.value.company) > 30
    /\ Len(output.value.id) = 71
    /\ \E t \in RawTitles \ {input.title}, c \in RawCompanies \ {input.company} :
          LET other == normalizeJob(t, c, None, None, None)
          IN  other # NoJob /\ other.id = output.value.id

\* text s has the marker p somewhere
Has(p, s) ==
    \E i \in 0..(Len(s) - Len(p)) : \A k \in 1..Len(p) : s[i + k] = p[k]

\* title, a space, description has one of the markers
Marked(markers, job) ==
    \E n \in 1..Len(markers) :
        Has(markers[n], job.title \o <<" ">> \o job.description)

\* C14: experienceFilter rejects every job whose title and description hold
\* a hard exclusion marker, a fresh-graduate marker or not; it accepts a job
\* only if no exclusion marker is there and either a fresh-graduate marker is
\* there or the title holds developer, engineer or programmer.
C14_ExclusionWins ==
    output.fn = "experienceFilter" =>
        /\ Marked(rejectPatterns, input.job) => output.value = FALSE
        /\ output.value = TRUE =>
              /\ ~Marked(rejectPatterns, input.job)
              /\ \/ Marked(freshPatterns, input.job)
                 \/ \E n \in 1..Len(entryLevelTitles) :
                       Has(entryLevelTitles[n], input.job.title)

\* a job with the markers "senior" and "fresh" was rejected
C14_Witness ==
    /\ output.fn = "experienceFilter"
    /\ output.value = FALSE
    /\ Has(<<"s","e","n","i","o","r">>, input.job.description)
    /\ Has(<<"f","r","e","s","h">>, input.job.description)
    /\ Has(<<"d","e","v","e","l","o","p","e","r">>, input.job.title)

\* the credits of the first n skills, in tenths, without rounding
RECURSIVE CreditTenths(_, _, _)
CreditTenths(skills, text, n) ==
    IF n = 0 THEN 0
    ELSE SkillCredit(skills[n], text) + CreditTenths(skills, text, n - 1)

\* (0.70*semantic + 0.30*keyword + boosts) * 100 for the arguments of a scorer
\* call, as the exact fraction num/den
Unclamped(in) ==
    LET text     == Lower(Joined(in.job.title, in.job.description))
        total    == Len(in.skills)
        tenths   == CreditTenths(in.skills, text, total)
        den      == IF total > 0 THEN 10 * total ELSE 1
        semantic == IF in.cosine < 0 THEN 0 ELSE in.cosine
    IN  [num |-> 7 * semantic * den + 300 * tenths
                    + 10 * (freshGradBoost(in.job) + roleBoost(in.job)) * den,
         den |-> 10 * den]

\* no skill of the profile matches the job, itself or by a synonym
NoSkillMatches(job, skills) ==
    \A i \in 1..Len(skills) :
        SkillCredit(skills[i], Lower(Joined(job.title, job.description))) = 0

\* C15: scoreJobHybrid returns an integer from 0 to 100; with a semantic
\* similarity of zero or less and no profile skill matching, the score is
\* exactly 100 times the sum of the fresh-graduate boost and the role boost.
C15_ScoreRangeAndBoostsOnly ==
    output.fn = "scoreJobHybrid" =>
        /\ output.value \in 0..100
        /\ (input.cosine <= 0
              /\ NoSkillMatches(input.job, input.skills))
             => output.value = freshGradBoost(input.job) + roleBoost(input.job)

\* a job with both boosts, a negative similarity and a profile of two skills
\* none of which matches scored 15 + 20
C15_Witness ==
    /\ output.fn = "scoreJobHybrid"
    /\ input.cosine < 0
    /\ Len(input.skills) = 2
    /\ NoSkillMatches(input.job, input.skills)
    /\ freshGradBoost(input.job) = 15
    /\ roleBoost(input.job) = 20
    /\ output.value = 35

\* C16: the score is the integer nearest to (0.70*semantic + 0.30*keyword +
\* boosts) * 100 (rounded, not truncated), or 100 when that is more than 100.
C16_ScoreIsRounded ==
    output.fn = "scoreJobHybrid" =>
        LET u == Unclamped(input)
        IN  IF output.value < 100
            THEN /\ 2 * (u.num - output.value * u.den) <= u.den
                 /\ 2 * (output.value * u.den - u.num) <= u.den
            ELSE 2 * u.num >= 199 * u.den

\* the cleanup at the start of the run in progress removed the entry of this
\* id, recorded more than retention_days before
ExpiredAtStart(id) ==
    /\ id \in DOMAIN evicted.entries
    /\ StampDay(evicted.entries[id]) + retention_days < evicted.at

\* C17: an entry older than retention_days when a run starts is evicted by
\* the run's initial cleanup, before any loop iteration of the run; when the
\* run then collects the job of that id and the job passes the filters and
\* reaches the threshold, the job is dispatched in that run and recorded with
\* the time of the dispatch.
C17_ExpiryReenablesNotification ==
    [][/\ (CleanupStep /\ history.kind = "dict") =>
             \A k \in DOMAIN history.entries :
                 StampDay(history.entries[k]) + retention_days < now
                     => k \notin DOMAIN history'.entries
       /\ (IterationStep /\ ExpiredAtStart(JobId(loopJob')) /\ score' >= minScore) =>
             /\ "is_sent" = Head(calls')
             /\ "sendToDiscord" \in Range(calls')
             /\ "post" = calls'[Len(calls')]
             /\ proc' = "posting"
             /\ history'.kind = "dict"
             /\ JobId(loopJob') \in DOMAIN history'.entries
             /\ history'.entries[JobId(loopJob')] = isoformat(now)
       /\ PostStep => delivery' # "none"
      ]_vars

\* a job whose entry had expired when the run started was dispatched and
\* recorded with the present time
C17_Witness ==
    /\ proc = "running"
    /\ loopJob = 2
    /\ ExpiredAtStart(JobId(2))
    /\ "post" \in Range(calls)
    /\ delivery # "none"
    /\ history.kind = "dict"
    /\ JobId(2) \in DOMAIN history.entries
    /\ history.entries[JobId(2)] = isoformat(now)

\* the history file holds an entry for this id, which a process that starts
\* loads
Stored(id) == file.kind = "object" /\ id \in DOMAIN file.entries

\* a process starts
StartStep == proc = "down" /\ proc' = "idle"

\* C18, as claimed: sendToDiscord records the job in the history before it
\* attempts the post and does not undo it, and a job whose last post failed is
\* not handed to sendToDiscord again, in the same run or in a later one, by
\* the same process or by a later one, until a cleanup has evicted its entry.
C18_FailedDeliveryNeverRetried ==
    [][/\ (IterationStep /\ "post" \in Range(calls')) =>
             /\ \E i, j \in 1..Len(calls') :
                    i < j /\ calls'[i] = "mark_as_sent" /\ calls'[j] = "post"
             /\ history'.kind = "dict"
             /\ JobId(loopJob') \in DOMAIN history'.entries
       /\ (PostStep /\ delivery' = "failed") =>
             /\ history' = history
             /\ file' = file
             /\ JobId(loopJob') \in DOMAIN history'.entries
       /\ (IterationStep /\ JobId(loopJob') \in undelivered) =>
             /\ "sendToDiscord" \notin Range(calls')
             /\ "post" \notin Range(calls')
      ]_vars

\* C18, amended: sendToDiscord records the job in the history before it
\* attempts the post and does not undo it: after a failed post the run goes on
\* with the entry in the history (and in the file when the save succeeded);
\* while the process is up the entry stays until a cleanup evicts it, and the
\* job of an entry in the history is not handed to sendToDiscord again.  A
\* process that ends leaves the file as it is, and a process that starts has
\* the entry of a job whose last post failed when the file holds it, and only
\* then: such a job is handed to sendToDiscord again only by a process that
\* started from a file without its entry.
C18_FailedDeliveryStaysMarked ==
    [][/\ (IterationStep /\ "post" \in Range(calls')) =>
             /\ \E i, j \in 1..Len(calls') :
                    i < j /\ calls'[i] = "mark_as_sent" /\ calls'[j] = "post"
             /\ history'.kind = "dict"
             /\ JobId(loopJob') \in DOMAIN history'.entries
             /\ history'.entries[JobId(loopJob')] = isoformat(now)
             /\ saved' = "ok" => file' = ObjectFile(history'.entries)
       /\ (PostStep /\ delivery' = "failed") =>
             /\ \E i, j \in 1..Len(calls') :
                    i < j /\ calls'[i] = "mark_as_sent" /\ calls'[j] = "post"
             /\ history' = history
             /\ file' = file
             /\ history'.kind = "dict"
             /\ JobId(loopJob') \in DOMAIN history'.entries
             /\ saved' = "ok" => file' = ObjectFile(history'.entries)
             /\ JobId(loopJob') \in undelivered'
       /\ (delivery = "failed" /\ proc' # "down") =>
             \/ JobId(loopJob) \in DOMAIN history'.entries
             \/ CleanupStep /\ removed' >= 1
       /\ (IterationStep /\ history.kind = "dict"
             /\ JobId(loopJob') \in DOMAIN history.entries) =>
             /\ "sendToDiscord" \notin Range(calls')
             /\ "post" \notin Range(calls')
             /\ delivery' = "none"
       /\ (delivery = "failed" /\ saved = "ok" /\ proc' = "down") =>
             /\ file' = file
             /\ file'.kind = "object"
             /\ JobId(loopJob) \in DOMAIN file'.entries
       /\ proc' = "down" => file' = file
       /\ StartStep =>
             \A id \in undelivered :
                /\ Stored(id) =>
                      /\ history'.kind = "dict"
                      /\ id \in DOMAIN history'.entries
                      /\ history'.entries[id] = file.entries[id]
                /\ ~Stored(id) /\ history'.kind = "dict" =>
                      id \notin DOMAIN history'.entries
       /\ (proc # "down" /\ proc' # "down" /\ history.kind = "dict") =>
             \A id \in undelivered' :
                id \in DOMAIN history.entries =>
                   /\ history'.kind = "dict"
                   /\ id \in DOMAIN history'.entries
       /\ (IterationStep /\ JobId(loopJob') \in undelivered
             /\ "sendToDiscord" \in Range(calls')) =>
             /\ history.kind = "dict" => JobId(loopJob') \notin DOMAIN history.entries
             /\ JobId(loopJob') \in DOMAIN history'.entries
      ]_vars

\* the post of a job failed; the job is in the history with the present time
\* and the same run has the job to visit once more
C18_Witness ==
    /\ proc = "running"
    /\ delivery = "failed"
    /\ loopJob # 0
    /\ JobId(loopJob) \in undelivered
    /\ history.kind = "dict"
    /\ JobId(loopJob) \in DOMAIN history.entries
    /\ history.entries[JobId(loopJob)] = isoformat(now)
    /\ pending # << >>
    /\ JobId(Head(pending)) = JobId(loopJob)

\* C19: the pipeline calls mark_as_sent only for a job whose id is absent
\* from the history at that moment; while a process is up no step changes the
\* timestamp of an entry that stays in the history; and when a run visits the
\* job it has just dispatched once more, it stops at the is_sent check.
C19_MarkOnlyAbsent ==
    [][/\ (IterationStep /\ "mark_as_sent" \in Range(calls')) =>
             IF history.kind = "dict"
             THEN JobId(loopJob') \notin DOMAIN history.entries
             ELSE JobId(loopJob') \notin Range(history.items)
       /\ (proc # "down" /\ proc' # "down"
             /\ history.kind = "dict" /\ history'.kind = "dict") =>
             \A k \in DOMAIN history.entries \cap DOMAIN history'.entries :
                 history'.entries[k] = history.entries[k]
       /\ (IterationStep /\ "post" \in Range(calls)
             /\ JobId(loopJob') = JobId(loopJob)) =>
             /\ calls' = <<"is_sent">>
             /\ history' = history
             /\ delivery' = "none"
      ]_vars

\* a run met, on a later day, a job that this clock's earlier dispatch had
\* recorded: it stopped at is_sent and the entry kept the time of the dispatch
C19_Witness ==
    /\ proc = "running"
    /\ calls = <<"is_sent">>
    /\ loopJob # 0
    /\ history.kind = "dict"
    /\ JobId(loopJob) \in DOMAIN history.entries
    /\ StampDay(history.entries[JobId(loopJob)]) >= retention_days
    /\ StampDay(history.entries[JobId(loopJob)]) < now

=============================================================================
